---- MODULE Spec2Model ----
(***************************************************************************)
(* Safety-gated action execution of the AWS monitor: SafetyGuard           *)
(* (app/safety_guard.py), ActionRecommender (app/action_recommender.py),   *)
(* ActionExecutor (app/action_executor.py) and the MonitorApp analysis     *)
(* pipeline that wires them together (main.py).                            *)
(*                                                                         *)
(* Time is the UTC wall clock in whole minutes since Monday 00:00; every   *)
(* datetime.now() of one synchronous call reads the same minute.           *)
(***************************************************************************)
EXTENDS Integers, Sequences, FiniteSets, TLC

(***************************************************************************)
(* Enumerations                                                            *)
(***************************************************************************)
RESTART_SERVICE == "restart_service"
RESTART_INSTANCE == "restart_instance"
REDEPLOY == "redeploy"
SCALE_UP == "scale_up"
SCALE_DOWN == "scale_down"
CLEAR_CACHE == "clear_cache"
ROTATE_LOGS == "rotate_logs"
NOTIFY == "notify"
ESCALATE == "escalate"
NO_ACTION == "no_action"

ActionType ==
    {RESTART_SERVICE, RESTART_INSTANCE, REDEPLOY, SCALE_UP, SCALE_DOWN,
     CLEAR_CACHE, ROTATE_LOGS, NOTIFY, ESCALATE, NO_ACTION}

LOW == "low"
MEDIUM == "medium"
HIGH == "high"
CRITICAL == "critical"

ActionRisk == {LOW, MEDIUM, HIGH, CRITICAL}

ALLOWED == "allowed"
BLOCKED_RATE_LIMIT == "blocked_rate_limit"
BLOCKED_COOLDOWN == "blocked_cooldown"
BLOCKED_CHANGE_FREEZE == "blocked_change_freeze"
BLOCKED_HIGH_RISK == "blocked_high_risk"
BLOCKED_CIRCUIT_OPEN == "blocked_circuit_open"
REQUIRES_APPROVAL == "requires_approval"

SafetyCheckResult ==
    {ALLOWED, BLOCKED_RATE_LIMIT, BLOCKED_COOLDOWN, BLOCKED_CHANGE_FREEZE,
     BLOCKED_HIGH_RISK, BLOCKED_CIRCUIT_OPEN, REQUIRES_APPROVAL}

\* The kinds _check_rate_limit and _check_cooldown look at.
RateLimitedKinds == {RESTART_SERVICE, RESTART_INSTANCE, REDEPLOY}

PENDING == "pending"
RUNNING == "running"
SUCCESS == "success"
FAILED == "failed"
SKIPPED == "skipped"
ROLLED_BACK == "rolled_back"

ExecutionStatus == {PENDING, RUNNING, SUCCESS, FAILED, SKIPPED, ROLLED_BACK}

\* Python's None where a string is expected.
NoneVal == "<None>"

(***************************************************************************)
(* Bounds of the model and the inputs the environment draws                *)
(***************************************************************************)
\* Clock value at construction: Monday 04:30 UTC, inside the maintenance window.
StartTime == 270
\* Minutes one clock step advances.
TickMinutes == 30
\* Clock steps taken at most.
MaxTicks == 2
\* record_action calls made at most.
MaxRecords == 3
\* record_action calls made at most where circuit breakers are studied.
MaxCircuitRecords == 4
\* Largest max_restarts_per_hour configured.
MaxRestarts == 2
\* Entries the violation log grows to at most.
MaxViolations == 1
\* Change freezes added at most.
MaxFreezes == 2
\* Actions of a plan handed to the executor at most.
MaxPlanLen == 3
\* the number of record_action calls when a circuit is followed through its reset
MaxResetRecords == 6
MaxCalls == 102
FreeCalls == 2
MaxApprovalCalls == 2
MaxExecutions == 1
\* execute_plan calls made at most by one caller of the executor of MonitorApp.
MaxRuns == 3
\* Clock steps taken at most where blocks are followed until they end.
LateTicks == 5
\* Entries the violation log grows to at most where whole plans are checked.
MaxPlanViolations == 2

\* The asyncio tasks.
Tasks == {1, 2}

Services == {"web-1", "amplify-app"}

CooldownChoices == {30, 90}

\* The default argument allowed_actions=None of add_change_freeze.
NoneArg == {"None"}

\* What the environment passes as allowed_actions.
AllowedArgs == {NoneArg, {}, {NOTIFY}, {RESTART_SERVICE, NOTIFY}}

FreezeNames == {"release"}

FreezeWindows ==
    {<<StartTime, StartTime + TickMinutes>>,
     <<StartTime + TickMinutes, StartTime + 2 * TickMinutes>>}

(***************************************************************************)
(* Program constants                                                       *)
(***************************************************************************)
max_history == 10000
circuit_threshold == 3
circuit_reset_after == 30
max_violations == 500
executor_max_history == 100
recommender_max_history == 1000
HourMinutes == 60
DayMinutes == 1440

\* self._maintenance_windows: weekdays 0..4, 02:00 to 05:00 UTC.
maintenance_days == {0, 1, 2, 3, 4}
maintenance_start == 120
maintenance_end == 300

(***************************************************************************)
(* State                                                                   *)
(***************************************************************************)
VARIABLES
    now,                    \* the wall clock, minutes
    settings,               \* ActionSettings
    action_history,         \* SafetyGuard._action_history
    circuit_breakers,       \* SafetyGuard._circuit_breakers (dict service -> count)
    circuit_last_failure,   \* SafetyGuard._circuit_last_failure (dict service -> time)
    circuit_reset_at,       \* per service: len(_action_history) when its counter was last
                            \* reset by the expiry in _is_circuit_open or by
                            \* override_circuit_breaker (the two "reset" log lines)
    change_freezes,         \* SafetyGuard._change_freezes
    violations,             \* SafetyGuard._violations
    tasks,                  \* per asyncio task: its position, its plan, the locals of
                            \* _analyze_and_respond and of execute_plan
    running,                \* the task the event loop is running, 0 when it is free
    api_calls,              \* the calls the Cloud Provider API client has received
    hook_calls,             \* the calls the stand-in hooks have received
    execution_history,      \* ActionExecutor._execution_history
    callbacks,              \* the hooks the executor was built with: "none", "stand-in"
                            \* (answers chosen by the environment) or "guard" (MonitorApp)
    rec_history,            \* ActionRecommender.history._actions
    approval_callback       \* ActionRecommender.approval_callback: NoneVal when the
                            \* recommender was built without one, else the calls it has
                            \* received

guardVars ==
    <<now, settings, action_history, circuit_breakers, circuit_last_failure,
      circuit_reset_at, change_freezes, violations>>

appVars ==
    <<tasks, running, api_calls, hook_calls, execution_history, callbacks, rec_history,
      approval_callback>>

vars == <<guardVars, appVars>>

(***************************************************************************)
(* Dictionaries                                                            *)
(***************************************************************************)
EmptyDict == [k \in {} |-> 0]

DictGet(d, k, default) == IF k \in DOMAIN d THEN d[k] ELSE default

DictPut(d, k, v) == [x \in (DOMAIN d) \cup {k} |-> IF x = k THEN v ELSE d[x]]

\* list.append followed by "if len(list) > cap: list.pop()": the entry just appended goes.
AppendCapped_pop_last(list, entry, cap) ==
    LET grown == Append(list, entry)
    IN IF Len(grown) > cap THEN list ELSE grown

\* list.append followed by "if len(list) > cap: list.pop(0)".
AppendCapped(list, entry, cap) ==
    LET grown == Append(list, entry)
    IN IF Len(grown) > cap THEN Tail(grown) ELSE grown

(***************************************************************************)
(* SafetyGuard queries                                                     *)
(***************************************************************************)
\* The number of records of (target_service, action_type) newer than cutoff.
CountSince(hist, action_type, target_service, cutoff) ==
    Cardinality({i \in 1..Len(hist) :
        /\ hist[i].target_service = target_service
        /\ hist[i].action_type = action_type
        /\ hist[i].timestamp > cutoff})

\* _check_rate_limit letting one action too many through (count <= max_allowed).
check_rate_limit_off_by_one(action_type, target_service) ==
    IF action_type \notin RateLimitedKinds
    THEN TRUE
    ELSE CountSince(action_history, action_type, target_service, now - HourMinutes)
            <= settings.max_restarts_per_hour

\* _check_rate_limit answering True whatever the history holds.
check_rate_limit_unlimited(action_type, target_service) == TRUE

\* SafetyGuard._check_rate_limit: TRUE when the action is within the limit.
check_rate_limit(action_type, target_service) ==
    IF action_type \notin RateLimitedKinds
    THEN TRUE
    ELSE CountSince(action_history, action_type, target_service, now - HourMinutes)
            < settings.max_restarts_per_hour

\* _check_cooldown looking at successful records only.
check_cooldown_success_only(action_type, target_service) ==
    IF action_type \notin RateLimitedKinds
    THEN TRUE
    ELSE \A i \in 1..Len(action_history) :
            ~(/\ action_history[i].target_service = target_service
              /\ action_history[i].action_type = action_type
              /\ action_history[i].success
              /\ action_history[i].timestamp > now - settings.cooldown_minutes)

\* _check_cooldown counting a record exactly cooldown_minutes old as recent.
check_cooldown_inclusive(action_type, target_service) ==
    IF action_type \notin RateLimitedKinds
    THEN TRUE
    ELSE CountSince(action_history, action_type, target_service,
                    now - settings.cooldown_minutes - 1) = 0

\* SafetyGuard._check_cooldown: TRUE when the cooldown has passed.
check_cooldown(action_type, target_service) ==
    IF action_type \notin RateLimitedKinds
    THEN TRUE
    ELSE CountSince(action_history, action_type, target_service,
                    now - settings.cooldown_minutes) = 0

\* The expiry branch of _is_circuit_open: the counter is at the threshold and the last
\* failure is older than the reset period.
circuit_expired(service) ==
    /\ service \in DOMAIN circuit_breakers
    /\ circuit_breakers[service] >= circuit_threshold
    /\ service \in DOMAIN circuit_last_failure
    /\ now - circuit_last_failure[service] > circuit_reset_after

\* _is_circuit_open without its reset after circuit_reset_after.
is_circuit_open_no_expiry(service) ==
    /\ service \in DOMAIN circuit_breakers
    /\ circuit_breakers[service] >= circuit_threshold

\* SafetyGuard._is_circuit_open: the value returned.
is_circuit_open(service) ==
    /\ service \in DOMAIN circuit_breakers
    /\ circuit_breakers[service] >= circuit_threshold
    /\ ~circuit_expired(service)

\* _is_circuit_open answering False for an expired circuit without resetting the counter.
circuit_after_query_no_reset(service) ==
    circuit_breakers

\* SafetyGuard._is_circuit_open: _circuit_breakers after the call.
circuit_after_query(service) ==
    IF circuit_expired(service)
    THEN [circuit_breakers EXCEPT ![service] = 0]
    ELSE circuit_breakers

\* ChangeFreeze.is_active
is_active(freeze, at) == freeze.start <= at /\ at <= freeze.end

\* SafetyGuard._get_active_freeze: the index of the first active freeze, 0 for None.
get_active_freeze ==
    LET active == {i \in 1..Len(change_freezes) : is_active(change_freezes[i], now)}
    IN IF active = {} THEN 0 ELSE CHOOSE i \in active : \A j \in active : i <= j

\* SafetyGuard._is_maintenance_window
is_maintenance_window ==
    /\ ((now \div DayMinutes) % 7) \in maintenance_days
    /\ maintenance_start <= now % DayMinutes
    /\ now % DayMinutes <= maintenance_end

\* check_action testing the cooldown before the rate limit.
check_action_violation_cooldown_first(action_type, target_service, risk_level) ==
    IF is_circuit_open(target_service) THEN BLOCKED_CIRCUIT_OPEN
    ELSE IF /\ get_active_freeze # 0
            /\ action_type \notin change_freezes[get_active_freeze].allowed_actions
         THEN BLOCKED_CHANGE_FREEZE
    ELSE IF ~check_cooldown(action_type, target_service) THEN BLOCKED_COOLDOWN
    ELSE IF ~check_rate_limit(action_type, target_service) THEN BLOCKED_RATE_LIMIT
    ELSE IF risk_level \in {HIGH, CRITICAL} /\ ~is_maintenance_window
         THEN BLOCKED_HIGH_RISK
    ELSE "none"

\* SafetyGuard.check_action: the check_type of the violation it records, "none" for none.
check_action_violation(action_type, target_service, risk_level) ==
    IF is_circuit_open(target_service) THEN BLOCKED_CIRCUIT_OPEN
    ELSE IF /\ get_active_freeze # 0
            /\ action_type \notin change_freezes[get_active_freeze].allowed_actions
         THEN BLOCKED_CHANGE_FREEZE
    ELSE IF ~check_rate_limit(action_type, target_service) THEN BLOCKED_RATE_LIMIT
    ELSE IF ~check_cooldown(action_type, target_service) THEN BLOCKED_COOLDOWN
    ELSE IF risk_level \in {HIGH, CRITICAL} /\ ~is_maintenance_window
         THEN BLOCKED_HIGH_RISK
    ELSE "none"

\* check_action returning the check type of the violation it records, the high-risk one
\* included.
check_action_result_hard_block(action_type, target_service, risk_level) ==
    LET v == check_action_violation(action_type, target_service, risk_level)
    IN IF v # "none" THEN v
       ELSE IF action_type \in settings.require_approval_for THEN REQUIRES_APPROVAL
       ELSE ALLOWED

\* SafetyGuard.check_action: the value returned.
check_action_result(action_type, target_service, risk_level) ==
    LET v == check_action_violation(action_type, target_service, risk_level)
    IN IF v = BLOCKED_HIGH_RISK THEN REQUIRES_APPROVAL
       ELSE IF v # "none" THEN v
       ELSE IF action_type \in settings.require_approval_for THEN REQUIRES_APPROVAL
       ELSE ALLOWED

(***************************************************************************)
(* SafetyGuard operations                                                  *)
(***************************************************************************)
\* _record_violation leaving the log as it is.
record_violation_dropped(check_type, action_type, target_service, can_override) ==
    violations

\* SafetyGuard._record_violation
record_violation(check_type, action_type, target_service, can_override) ==
    AppendCapped(violations,
        [check_type |-> check_type, action_type |-> action_type,
         target_service |-> target_service, timestamp |-> now,
         can_override |-> can_override],
        max_violations)

\* The guard state after check_action(action_type, target_service, risk_level).
GuardCheck(action_type, target_service, risk_level) ==
    LET v == check_action_violation(action_type, target_service, risk_level)
    IN /\ circuit_breakers' = circuit_after_query(target_service)
       /\ circuit_reset_at' =
            IF circuit_expired(target_service)
            THEN [circuit_reset_at EXCEPT ![target_service] = Len(action_history)]
            ELSE circuit_reset_at
       /\ violations' =
            IF v = "none" THEN violations
            ELSE record_violation(v, action_type, target_service, v = BLOCKED_HIGH_RISK)
       /\ UNCHANGED <<now, settings, action_history, circuit_last_failure, change_freezes>>

\* SafetyGuard.check_action
CheckAction(action_type, target_service, risk_level) ==
    GuardCheck(action_type, target_service, risk_level)

\* check_plan: _violations after the check_action calls for the actions from position i
\* on. The answer for an action does not depend on the calls before it in the same
\* check_plan: they change only the violation log and the counter of an expired circuit,
\* which _is_circuit_open answers False for before and after its reset.
RECURSIVE violations_after_plan(_, _, _)
violations_after_plan(log, actions, i) ==
    IF i > Len(actions) THEN log
    ELSE LET v == check_action_violation(actions[i].action_type,
                        actions[i].target_service, actions[i].risk_level)
         IN violations_after_plan(
                IF v = "none" THEN log
                ELSE AppendCapped(log,
                        [check_type |-> v, action_type |-> actions[i].action_type,
                         target_service |-> actions[i].target_service, timestamp |-> now,
                         can_override |-> (v = BLOCKED_HIGH_RISK)],
                        max_violations),
                actions, i + 1)

\* The services the actions of a plan target.
plan_services(actions) == {actions[i].target_service : i \in 1..Len(actions)}

\* check_plan: the list of violations it returns, one for every action whose check_action
\* result is neither ALLOWED nor REQUIRES_APPROVAL.
RECURSIVE check_plan(_, _)
check_plan(actions, i) ==
    IF i > Len(actions) THEN <<>>
    ELSE LET result == check_action_result(actions[i].action_type,
                            actions[i].target_service, actions[i].risk_level)
         IN (IF result \in {ALLOWED, REQUIRES_APPROVAL} THEN <<>>
             ELSE <<[check_type |-> result, action_type |-> actions[i].action_type,
                     target_service |-> actions[i].target_service]>>)
            \o check_plan(actions, i + 1)

\* SafetyGuard.check_plan: check_action for every action of the plan, in one call.
CheckPlan(actions) ==
    /\ circuit_breakers' =
            [s \in DOMAIN circuit_breakers |->
                IF s \in plan_services(actions) /\ circuit_expired(s)
                THEN 0 ELSE circuit_breakers[s]]
    /\ circuit_reset_at' =
            [s \in DOMAIN circuit_reset_at |->
                IF s \in plan_services(actions) /\ circuit_expired(s)
                THEN Len(action_history) ELSE circuit_reset_at[s]]
    /\ violations' = violations_after_plan(violations, actions, 1)
    /\ UNCHANGED <<now, settings, action_history, circuit_last_failure, change_freezes>>

\* _record_failure counting a service's first failure only.
record_failure_no_increment(service) ==
    DictPut(circuit_breakers, service, 1)

\* _record_failure with one counter for all the services that have an entry.
record_failure_shared_counter(service) ==
    [s \in DOMAIN circuit_breakers \cup {service} |->
        DictGet(circuit_breakers, s, 0) + 1]

\* SafetyGuard._record_failure: _circuit_breakers after the call.
record_failure(service) ==
    DictPut(circuit_breakers, service, DictGet(circuit_breakers, service, 0) + 1)

\* _record_success leaving the counter as it is.
record_success_keeps_count(service) ==
    circuit_breakers

\* SafetyGuard._record_success: _circuit_breakers after the call.
record_success(service) ==
    IF service \in DOMAIN circuit_breakers
    THEN [circuit_breakers EXCEPT ![service] = 0]
    ELSE circuit_breakers

\* record_action resetting the failure counter for the successes of rate-limited kinds
\* only.
GuardRecord_restart_successes_only(action_type, target_service, success) ==
    /\ action_history' =
        AppendCapped(action_history,
            [action_type |-> action_type, target_service |-> target_service,
             timestamp |-> now, success |-> success],
            max_history)
    /\ circuit_breakers' =
        IF ~success THEN record_failure(target_service)
        ELSE IF action_type \in RateLimitedKinds THEN record_success(target_service)
        ELSE circuit_breakers
    /\ circuit_last_failure' =
        IF ~success THEN DictPut(circuit_last_failure, target_service, now)
        ELSE circuit_last_failure
    /\ UNCHANGED <<now, settings, circuit_reset_at, change_freezes, violations>>

\* The guard state after record_action(action_type, target_service, success).
GuardRecord(action_type, target_service, success) ==
    /\ action_history' =
        AppendCapped(action_history,
            [action_type |-> action_type, target_service |-> target_service,
             timestamp |-> now, success |-> success],
            max_history)
    /\ circuit_breakers' =
        IF ~success THEN record_failure(target_service) ELSE record_success(target_service)
    /\ circuit_last_failure' =
        IF ~success THEN DictPut(circuit_last_failure, target_service, now)
        ELSE circuit_last_failure
    /\ UNCHANGED <<now, settings, circuit_reset_at, change_freezes, violations>>

\* SafetyGuard.record_action
RecordAction(action_type, target_service, success) ==
    GuardRecord(action_type, target_service, success)

\* The allowed_actions add_change_freeze stores for the argument it is given.
stored_allowed_actions(allowed_actions) ==
    IF allowed_actions = NoneArg \/ allowed_actions = {}
    THEN {NOTIFY, ESCALATE}
    ELSE allowed_actions

\* SafetyGuard.add_change_freeze
AddChangeFreeze(name, start, end, allowed_actions) ==
    /\ change_freezes' =
        Append(change_freezes,
            [name |-> name, start |-> start, end |-> end,
             allowed_actions |-> stored_allowed_actions(allowed_actions)])
    /\ UNCHANGED <<now, settings, action_history, circuit_breakers, circuit_last_failure,
                   circuit_reset_at, violations>>

\* The list without its element at position i.
RemoveAt(list, i) ==
    [j \in 1..(Len(list) - 1) |-> IF j < i THEN list[j] ELSE list[j + 1]]

\* SafetyGuard.remove_change_freeze
RemoveChangeFreeze(name) ==
    LET named == {i \in 1..Len(change_freezes) : change_freezes[i].name = name}
        first == CHOOSE i \in named : \A j \in named : i <= j
    IN /\ change_freezes' =
            IF named = {} THEN change_freezes ELSE RemoveAt(change_freezes, first)
       /\ UNCHANGED <<now, settings, action_history, circuit_breakers,
                      circuit_last_failure, circuit_reset_at, violations>>

\* override_circuit_breaker setting the counter just under the threshold.
OverrideCircuitBreaker_under_threshold(service) ==
    /\ circuit_breakers' =
        IF service \in DOMAIN circuit_breakers
        THEN [circuit_breakers EXCEPT ![service] = circuit_threshold - 1]
        ELSE circuit_breakers
    /\ circuit_reset_at' =
        IF service \in DOMAIN circuit_breakers
        THEN [circuit_reset_at EXCEPT ![service] = Len(action_history)]
        ELSE circuit_reset_at
    /\ UNCHANGED <<now, settings, action_history, circuit_last_failure, change_freezes,
                   violations>>

\* SafetyGuard.override_circuit_breaker
OverrideCircuitBreaker(service) ==
    /\ circuit_breakers' =
        IF service \in DOMAIN circuit_breakers
        THEN [circuit_breakers EXCEPT ![service] = 0]
        ELSE circuit_breakers
    /\ circuit_reset_at' =
        IF service \in DOMAIN circuit_breakers
        THEN [circuit_reset_at EXCEPT ![service] = Len(action_history)]
        ELSE circuit_reset_at
    /\ UNCHANGED <<now, settings, action_history, circuit_last_failure, change_freezes,
                   violations>>

\* The wall clock advances.
Tick ==
    /\ now' = now + TickMinutes
    /\ UNCHANGED <<settings, action_history, circuit_breakers, circuit_last_failure,
                   circuit_reset_at, change_freezes, violations>>

(***************************************************************************)
(* ActionExecutor: the per-action dispatch                                 *)
(***************************************************************************)
\* ActionRecommendation(...), confidence in hundredths.
ActionRecommendation(action_type, target_service, risk_level, confidence, approval, params) ==
    [action_type |-> action_type, target_service |-> target_service,
     risk_level |-> risk_level, confidence |-> confidence,
     requires_approval |-> approval, parameters |-> params]

\* The parameters recommend_for_analysis gives the primary action.
analysis_parameters == "error_fingerprint" :> "fp" @@ "error_category" :> "category"

\* Python's "not v" for a value that is a string or None.
Falsy(v) == v = NoneVal \/ v = ""

\* The services whose lower-cased name contains "amplify".
NamedAmplify == {s \in Services : s = "amplify-app"}

\* No call to the Cloud Provider API.
NoCall == [op |-> "none", arg |-> NoneVal]

\* _restart_service making its call without looking for an app_id or instance_id.
restart_service_call_unchecked(action) ==
    IF \/ action.target_service \in NamedAmplify
       \/ DictGet(action.parameters, "service_type", NoneVal) = "amplify"
    THEN [op |-> "start_amplify_deployment",
          arg |-> DictGet(action.parameters, "app_id", NoneVal)]
    ELSE [op |-> "reboot_instance",
          arg |-> DictGet(action.parameters, "instance_id", NoneVal)]

\* _restart_service: the call it makes to the Cloud Provider API, NoCall when it returns
\* before making one.
restart_service_call(action) ==
    IF \/ action.target_service \in NamedAmplify
       \/ DictGet(action.parameters, "service_type", NoneVal) = "amplify"
    THEN IF Falsy(DictGet(action.parameters, "app_id", NoneVal))
         THEN NoCall
         ELSE [op |-> "start_amplify_deployment", arg |-> action.parameters["app_id"]]
    ELSE IF Falsy(DictGet(action.parameters, "instance_id", NoneVal))
         THEN NoCall
         ELSE [op |-> "reboot_instance", arg |-> action.parameters["instance_id"]]

\* _restart_instance making its call without looking for an instance_id.
restart_instance_call_unchecked(action) ==
    [op |-> "reboot_instance", arg |-> DictGet(action.parameters, "instance_id", NoneVal)]

\* _restart_instance: likewise.
restart_instance_call(action) ==
    IF Falsy(DictGet(action.parameters, "instance_id", NoneVal))
    THEN NoCall
    ELSE [op |-> "reboot_instance", arg |-> action.parameters["instance_id"]]

\* _redeploy starting the deployment without looking for an app_id.
redeploy_call_unchecked(action) ==
    [op |-> "start_amplify_deployment",
     arg |-> DictGet(action.parameters, "app_id", NoneVal)]

\* _redeploy: likewise.
redeploy_call(action) ==
    IF Falsy(DictGet(action.parameters, "app_id", NoneVal))
    THEN NoCall
    ELSE [op |-> "start_amplify_deployment", arg |-> action.parameters["app_id"]]

\* _execute_action with handlers that make their call whatever identifiers the action
\* carries.
execute_action_call_without_ids(action, dry_run) ==
    IF dry_run THEN NoCall
    ELSE IF action.action_type = RESTART_SERVICE THEN restart_service_call_unchecked(action)
    ELSE IF action.action_type = RESTART_INSTANCE
    THEN restart_instance_call_unchecked(action)
    ELSE IF action.action_type = REDEPLOY THEN redeploy_call_unchecked(action)
    ELSE NoCall

\* _execute_action making the call of the action's kind in a dry run too.
execute_action_call_ignoring_dry_run(action, dry_run) ==
    IF action.action_type = RESTART_SERVICE THEN restart_service_call(action)
    ELSE IF action.action_type = RESTART_INSTANCE THEN restart_instance_call(action)
    ELSE IF action.action_type = REDEPLOY THEN redeploy_call(action)
    ELSE NoCall

\* _execute_action: the first call to the Cloud Provider API it makes, NoCall for none.
execute_action_call(action, dry_run) ==
    IF dry_run THEN NoCall
    ELSE IF action.action_type = RESTART_SERVICE THEN restart_service_call(action)
    ELSE IF action.action_type = RESTART_INSTANCE THEN restart_instance_call(action)
    ELSE IF action.action_type = REDEPLOY THEN redeploy_call(action)
    ELSE NoCall

\* _execute_action: the status of the result when it makes no call to the API.
execute_action_status(action, dry_run) ==
    IF dry_run THEN SUCCESS
    ELSE IF action.action_type \in {RESTART_SERVICE, RESTART_INSTANCE, REDEPLOY} THEN FAILED
    ELSE IF action.action_type \in {NOTIFY, ESCALATE} THEN SUCCESS
    ELSE SKIPPED

\* What reboot_instance and start_amplify_deployment can answer: a truthy value, False,
\* None, an exception.
ApiOutcomes == {"ok", "false", "none", "raise"}

\* The test of the answer written "is not False": None passes it.
api_status_none_passes(outcome) ==
    IF outcome \in {"ok", "none"} THEN SUCCESS ELSE FAILED

\* The status of the result once the API call has answered: "if success:" / "if job_id:"
\* and the except clause of _execute_action.
api_status(outcome) == IF outcome = "ok" THEN SUCCESS ELSE FAILED

\* What get_instance_status can answer.
StatusOutcomes == {"healthy", "unhealthy", "raise"}

\* _wait_for_instance_recovery: timeout_s and the sleep between two polls, in seconds.
timeout_s == 300
poll_sleep_s == 10

(***************************************************************************)
(* ActionExecutor.execute_plan, one step per stretch of its body           *)
(***************************************************************************)
NoPlan == [actions |-> <<>>, approved |-> FALSE, executed |-> FALSE,
           execution_result |-> NoneVal]

NoResult == [overall_status |-> PENDING, action_results |-> <<>>]

\* The analysis held by a task that has not passed one to the recommender itself.
NoAnalysis ==
    [recommended_action |-> NoneVal, severity |-> NoneVal, confidence |-> 0,
     source_service |-> NoneVal]

\* The health state and the previous state held by a task that has not passed them to
\* the recommender itself.
NoHealthChange == [state |-> NoneVal, previous_state |-> NoneVal]

\* The arguments of execute_single_action held by a task that has not called it.
NoRequest == [action_type |-> NoneVal, parameters |-> EmptyDict]

\* A task that has not been created.
IdleTask ==
    [pc |-> "idle", caller |-> "none", service |-> NoneVal, plan |-> NoPlan,
     dry_run |-> FALSE, stop_on_failure |-> TRUE, outer |-> 0, inner |-> 0,
     result |-> NoResult, calls |-> 0, elapsed |-> 0, dispatched |-> <<>>,
     analysis |-> NoAnalysis, health_change |-> NoHealthChange,
     request |-> NoRequest]

\* The loop of execute_plan going through the plan from its end.
CurrentAction_reversed(t) ==
    tasks[t].plan.actions[Len(tasks[t].plan.actions) + 1 - tasks[t].inner]

\* The action the loop of execute_plan is at.
CurrentAction(t) == tasks[t].plan.actions[tasks[t].inner]

\* "for action in plan.actions": the position after moving to index inner.
loop_pc(tk, inner) == IF inner > Len(tk.plan.actions) THEN "finish" ELSE "pre_hook"

\* The task on entering execute_plan(plan, dry_run, stop_on_failure).
enter_execute_plan(tk, dry_run, stop_on_failure) ==
    [tk EXCEPT !.dry_run = dry_run, !.stop_on_failure = stop_on_failure,
               !.calls = @ + 1,
               !.result = [overall_status |-> RUNNING, action_results |-> <<>>],
               !.dispatched = <<>>,
               !.inner = 1, !.pc = loop_pc(tk, 1)]

\* The ExecutionResult of the current action with the status given.
execution_result(t, status) ==
    [action_type |-> CurrentAction(t).action_type,
     target_service |-> CurrentAction(t).target_service,
     status |-> status]

\* The pre-hook branch of execute_plan counting the skipped action as a failure.
skip_action_as_failure(t) ==
    [tasks EXCEPT ![t].result.action_results = Append(@, execution_result(t, FAILED)),
                  ![t].inner = @ + 1,
                  ![t].pc = loop_pc(tasks[t], tasks[t].inner + 1)]

\* The pre-hook branch of execute_plan without its "continue": the skipped action goes on
\* to the post hook.
skip_action_without_continue(t) ==
    [tasks EXCEPT ![t].result.action_results = Append(@, execution_result(t, SKIPPED)),
                  ![t].pc = "post_hook"]

\* result.action_results.append(...) followed by "continue".
skip_action(t) ==
    [tasks EXCEPT ![t].result.action_results = Append(@, execution_result(t, SKIPPED)),
                  ![t].inner = @ + 1,
                  ![t].pc = loop_pc(tasks[t], tasks[t].inner + 1)]

\* A pre hook whose exception leaves execute_plan: the call ends without a result.
after_pre_hook_propagating(t, outcome) ==
    IF outcome = "false" THEN skip_action(t)
    ELSE IF outcome = "raise" THEN [tasks EXCEPT ![t].pc = "raised"]
    ELSE [tasks EXCEPT ![t].pc = "execute_action"]

\* A pre hook whose exception counts as a refusal: the action is skipped.
after_pre_hook_raise_skips(t, outcome) ==
    IF outcome \in {"false", "raise"} THEN skip_action(t)
    ELSE [tasks EXCEPT ![t].pc = "execute_action"]

\* execute_plan after its pre hook has answered: a falsy answer skips the action; a truthy
\* one, and an exception (caught and logged), go on to _execute_action.
after_pre_hook(t, outcome) ==
    IF outcome = "false" THEN skip_action(t)
    ELSE [tasks EXCEPT ![t].pc = "execute_action"]

\* _execute_action has returned and the loop goes to the failure check at once, the post
\* hook left out.
append_result_without_post_hook(t, status) ==
    LET appended == [tasks EXCEPT ![t].result.action_results =
                                        Append(@, execution_result(t, status))]
    IN IF status = FAILED /\ tasks[t].stop_on_failure
       THEN [appended EXCEPT ![t].result.overall_status = FAILED, ![t].pc = "finish"]
       ELSE [appended EXCEPT ![t].inner = @ + 1,
                             ![t].pc = loop_pc(tasks[t], tasks[t].inner + 1)]

\* _execute_action has returned: result.action_results.append(action_result).
append_result(t, status) ==
    [tasks EXCEPT ![t].result.action_results = Append(@, execution_result(t, status)),
                  ![t].pc = "post_hook"]

\* The failure check after the post hook of execute_plan going on after a failure.
after_post_hook_never_stops(t) ==
    [tasks EXCEPT ![t].inner = @ + 1,
                  ![t].pc = loop_pc(tasks[t], tasks[t].inner + 1)]

\* execute_plan after the post hook: the failure check, then the next action.
after_post_hook(t) ==
    LET last == tasks[t].result.action_results[Len(tasks[t].result.action_results)]
    IN IF last.status = FAILED /\ tasks[t].stop_on_failure
       THEN [tasks EXCEPT ![t].result.overall_status = FAILED, ![t].pc = "finish"]
       ELSE [tasks EXCEPT ![t].inner = @ + 1,
                          ![t].pc = loop_pc(tasks[t], tasks[t].inner + 1)]

\* PlanExecutionResult.failure_count
failure_count(result) ==
    Cardinality({i \in 1..Len(result.action_results) :
                    result.action_results[i].status = FAILED})

\* "Determine overall status" looking only at whether the loop was left by its break.
final_status_break_only(result) ==
    IF result.overall_status = FAILED THEN FAILED ELSE SUCCESS

\* execute_plan: "Determine overall status".
final_status(result) ==
    IF result.overall_status = FAILED THEN FAILED
    ELSE IF failure_count(result) > 0 THEN FAILED
    ELSE SUCCESS

\* A direct call of execute_plan(plan, dry_run, stop_on_failure) in a task of its own.
ExecutePlan(t, actions, dry_run, stop_on_failure) ==
    /\ tasks[t].pc = "idle"
    /\ running = 0
    /\ tasks' = [tasks EXCEPT ![t] =
            enter_execute_plan(
                [IdleTask EXCEPT !.caller = "direct", !.plan.actions = actions],
                dry_run, stop_on_failure)]
    /\ running' = t
    /\ UNCHANGED <<api_calls, hook_calls, execution_history, rec_history, callbacks,
                   approval_callback>>
    /\ UNCHANGED guardVars

\* The caller of a direct execute_plan that has returned calls it again, with a new plan.
ExecutePlanAgain(t, actions, dry_run, stop_on_failure) ==
    /\ tasks[t].pc = "done"
    /\ tasks[t].caller = "direct"
    /\ running = 0
    /\ tasks' = [tasks EXCEPT ![t] =
            enter_execute_plan([tasks[t] EXCEPT !.plan = [NoPlan EXCEPT !.actions = actions]],
                               dry_run, stop_on_failure)]
    /\ running' = t
    /\ UNCHANGED <<api_calls, hook_calls, execution_history, rec_history, callbacks,
                   approval_callback>>
    /\ UNCHANGED guardVars

\* execute_single_action up to its call of _execute_action: the ActionRecommendation is
\* built with "risk_level=action.risk_level if hasattr(action, 'risk_level') else None",
\* which reads the local "action" the statement is about to assign, and Python raises
\* UnboundLocalError; _execute_action is not reached, whatever the arguments.
execute_single_action(action_type, target_service, parameters, dry_run) ==
    [pc |-> "raised", exception |-> "UnboundLocalError"]

\* A call of execute_single_action(action_type, target_service, parameters, dry_run) in a
\* task of its own: the exception leaves the method.
ExecuteSingleAction(t, action_type, target_service, parameters, dry_run) ==
    /\ tasks[t].pc = "idle"
    /\ running = 0
    /\ tasks' = [tasks EXCEPT ![t] =
            [IdleTask EXCEPT
                !.pc = execute_single_action(action_type, target_service, parameters,
                                             dry_run).pc,
                !.caller = "single", !.service = target_service, !.dry_run = dry_run,
                !.request = [action_type |-> action_type, parameters |-> parameters]]]
    /\ UNCHANGED <<running, api_calls, hook_calls, execution_history, rec_history,
                   callbacks, approval_callback>>
    /\ UNCHANGED guardVars

\* execute_plan of an executor built without a pre_execution_callback.
PreHookNone(t) ==
    /\ tasks[t].pc = "pre_hook"
    /\ running = t
    /\ callbacks = "none"
    /\ tasks' = [tasks EXCEPT ![t].pc = "execute_action"]
    /\ UNCHANGED <<running, api_calls, hook_calls, execution_history, rec_history,
                   callbacks, approval_callback>>
    /\ UNCHANGED guardVars

\* execute_plan calling a pre_execution_callback that answers as the environment chooses.
PreHookStandIn(t, outcome) ==
    /\ tasks[t].pc = "pre_hook"
    /\ running = t
    /\ callbacks = "stand-in"
    /\ hook_calls' = Append(hook_calls, [hook |-> "pre", task |-> t,
                                         position |-> tasks[t].inner,
                                         outcome |-> outcome])
    /\ tasks' = after_pre_hook(t, outcome)
    /\ UNCHANGED <<running, api_calls, execution_history, rec_history, callbacks,
                   approval_callback>>
    /\ UNCHANGED guardVars

\* execute_plan calling MonitorApp._pre_execution_check.
PreHookGuard(t) ==
    /\ tasks[t].pc = "pre_hook"
    /\ running = t
    /\ callbacks = "guard"
    /\ GuardCheck(CurrentAction(t).action_type, CurrentAction(t).target_service,
                  CurrentAction(t).risk_level)
    /\ tasks' =
        IF check_action_result(CurrentAction(t).action_type,
                               CurrentAction(t).target_service,
                               CurrentAction(t).risk_level) = ALLOWED
        THEN [tasks EXCEPT ![t].pc = "execute_action"]
        ELSE skip_action(t)
    /\ UNCHANGED <<running, api_calls, hook_calls, execution_history, rec_history,
                   callbacks, approval_callback>>

\* An entry of the API client's call log.
api_call(t, call) ==
    [op |-> call.op, arg |-> call.arg, task |-> t, position |-> tasks[t].inner,
     action_type |-> CurrentAction(t).action_type,
     target_service |-> CurrentAction(t).target_service,
     started |-> now, completed |-> -1]

\* The position in the call log of the call task t is waiting for.
pending_call(t) ==
    CHOOSE i \in 1..Len(api_calls) : api_calls[i].task = t /\ api_calls[i].completed = -1

\* "await self._execute_action(action, dry_run)" up to its first call to the API, or to
\* its return when it makes none.
ExecuteAction(t) ==
    LET call == execute_action_call(CurrentAction(t), tasks[t].dry_run)
    IN /\ tasks[t].pc = "execute_action"
       /\ running = t
       /\ IF call.op = "none"
          THEN /\ tasks' = [append_result(t,
                                execute_action_status(CurrentAction(t), tasks[t].dry_run))
                            EXCEPT ![t].dispatched = Append(@, tasks[t].inner)]
               /\ UNCHANGED <<running, api_calls>>
          ELSE /\ tasks' = [tasks EXCEPT ![t].pc = "api_wait",
                                         ![t].dispatched = Append(@, tasks[t].inner)]
               /\ api_calls' = Append(api_calls, api_call(t, call))
               /\ running' = 0
       /\ UNCHANGED <<hook_calls, execution_history, rec_history, callbacks,
                      approval_callback>>
       /\ UNCHANGED guardVars

\* reboot_instance or start_amplify_deployment answers and the task goes on.
ApiReturn(t, outcome) ==
    LET recovery == /\ CurrentAction(t).action_type = RESTART_INSTANCE
                    /\ outcome = "ok"
                    /\ ~Falsy(DictGet(CurrentAction(t).parameters, "wait_for_recovery", ""))
        answered == [api_calls EXCEPT ![pending_call(t)].completed = now]
    IN /\ tasks[t].pc = "api_wait"
       /\ running = 0
       /\ IF recovery
          THEN /\ tasks' = [tasks EXCEPT ![t].pc = "recovery_wait", ![t].elapsed = 0]
               /\ api_calls' = Append(answered,
                    api_call(t, [op |-> "get_instance_status",
                                 arg |-> CurrentAction(t).parameters["instance_id"]]))
               /\ UNCHANGED running
          ELSE /\ tasks' = append_result(t, api_status(outcome))
               /\ api_calls' = answered
               /\ running' = t
       /\ UNCHANGED <<hook_calls, execution_history, rec_history, callbacks,
                      approval_callback>>
       /\ UNCHANGED guardVars

\* _wait_for_instance_recovery: get_instance_status answers (or raises) after `took`
\* seconds. An answer of healthy ends the wait; after any other the task goes to
\* "await asyncio.sleep(10)" and the event loop is free.
StatusReturn(t, outcome, took) ==
    LET answered == [api_calls EXCEPT ![pending_call(t)].completed = now]
        passed == IF tasks[t].elapsed + took > timeout_s THEN timeout_s + 1
                  ELSE tasks[t].elapsed + took
    IN /\ tasks[t].pc = "recovery_wait"
       /\ running = 0
       /\ api_calls' = answered
       /\ IF outcome = "healthy"
          THEN /\ tasks' = append_result(t, SUCCESS)
               /\ running' = t
          ELSE /\ tasks' = [tasks EXCEPT ![t].pc = "recovery_sleep", ![t].elapsed = passed]
               /\ UNCHANGED running
       /\ UNCHANGED <<hook_calls, execution_history, rec_history, callbacks,
                      approval_callback>>
       /\ UNCHANGED guardVars

\* The sleep of the polling loop ending on a clock that stands still: elapsed stays what
\* it was and the next poll is made.
RecoverySleep_clock_stands_still(t, slept) ==
    /\ tasks[t].pc = "recovery_sleep"
    /\ running = 0
    /\ tasks' = [tasks EXCEPT ![t].pc = "recovery_wait"]
    /\ api_calls' = Append(api_calls,
            api_call(t, [op |-> "get_instance_status",
                         arg |-> CurrentAction(t).parameters["instance_id"]]))
    /\ UNCHANGED <<running, hook_calls, execution_history, rec_history, callbacks,
                   approval_callback>>
    /\ UNCHANGED guardVars

\* _wait_for_instance_recovery: the sleep ends after `slept` seconds and the loop reads the
\* clock: past timeout_s it returns (recovery_timeout), otherwise it polls again.
RecoverySleep(t, slept) ==
    LET elapsed == IF tasks[t].elapsed + slept > timeout_s THEN timeout_s + 1
                   ELSE tasks[t].elapsed + slept
    IN /\ tasks[t].pc = "recovery_sleep"
       /\ running = 0
       /\ IF elapsed > timeout_s
          THEN /\ tasks' = [append_result(t, SUCCESS) EXCEPT ![t].elapsed = elapsed]
               /\ UNCHANGED api_calls
               /\ running' = t
          ELSE /\ tasks' = [tasks EXCEPT ![t].pc = "recovery_wait", ![t].elapsed = elapsed]
               /\ api_calls' = Append(api_calls,
                    api_call(t, [op |-> "get_instance_status",
                                 arg |-> CurrentAction(t).parameters["instance_id"]]))
               /\ UNCHANGED running
       /\ UNCHANGED <<hook_calls, execution_history, rec_history, callbacks,
                      approval_callback>>
       /\ UNCHANGED guardVars

\* execute_plan of an executor built without a post_execution_callback.
PostHookNone(t) ==
    /\ tasks[t].pc = "post_hook"
    /\ running = t
    /\ callbacks = "none"
    /\ tasks' = after_post_hook(t)
    /\ UNCHANGED <<running, api_calls, hook_calls, execution_history, rec_history,
                   callbacks, approval_callback>>
    /\ UNCHANGED guardVars

\* execute_plan calling a post_execution_callback that returns or raises.
PostHookStandIn(t, raises) ==
    /\ tasks[t].pc = "post_hook"
    /\ running = t
    /\ callbacks = "stand-in"
    /\ hook_calls' = Append(hook_calls, [hook |-> "post", task |-> t,
                                         position |-> tasks[t].inner,
                                         outcome |-> IF raises THEN "raise" ELSE "return"])
    /\ tasks' = after_post_hook(t)
    /\ UNCHANGED <<running, api_calls, execution_history, rec_history, callbacks,
                   approval_callback>>
    /\ UNCHANGED guardVars

\* execute_plan calling MonitorApp._post_execution_log.
PostHookGuard(t) ==
    LET last == tasks[t].result.action_results[Len(tasks[t].result.action_results)]
    IN /\ tasks[t].pc = "post_hook"
       /\ running = t
       /\ callbacks = "guard"
       /\ GuardRecord(last.action_type, last.target_service, last.status = SUCCESS)
       /\ tasks' = after_post_hook(t)
       /\ UNCHANGED <<running, api_calls, hook_calls, execution_history, rec_history,
                      callbacks, approval_callback>>

\* execute_plan from "Determine overall status" to its return.
Finish(t) ==
    LET overall == final_status(tasks[t].result)
    IN /\ tasks[t].pc = "finish"
       /\ running = t
       /\ tasks' = [tasks EXCEPT
                ![t].result.overall_status = overall,
                ![t].plan.executed = TRUE,
                ![t].plan.execution_result = overall,
                ![t].pc = IF tasks[t].caller = "pipeline" THEN "record_execution"
                          ELSE "done"]
       /\ execution_history' =
            AppendCapped(execution_history,
                [task |-> t, call |-> tasks[t].calls, overall_status |-> overall,
                 action_results |-> tasks[t].result.action_results],
                executor_max_history)
       /\ running' = IF tasks[t].caller = "pipeline" THEN t ELSE 0
       /\ UNCHANGED <<api_calls, hook_calls, rec_history, callbacks, approval_callback>>
       /\ UNCHANGED guardVars

(***************************************************************************)
(* ActionRecommender                                                       *)
(***************************************************************************)
RecommendedAction ==
    {"restart_service", "redeploy", "scale_up", "check_dependencies",
     "fix_configuration", "investigate", "escalate", "ignore"}

HEALTHY == "healthy"
DEGRADED == "degraded"
UNHEALTHY == "unhealthy"
UNKNOWN == "unknown"

\* ActionRecommender._action_risks
action_risks(action_type) ==
    IF action_type \in {NOTIFY, ROTATE_LOGS, CLEAR_CACHE, ESCALATE, NO_ACTION} THEN LOW
    ELSE IF action_type \in {SCALE_UP, SCALE_DOWN, RESTART_SERVICE} THEN MEDIUM
    ELSE HIGH

\* ActionRecommender._map_recommended_action
map_recommended_action(recommended) ==
    IF recommended = "restart_service" THEN RESTART_SERVICE
    ELSE IF recommended = "redeploy" THEN REDEPLOY
    ELSE IF recommended = "scale_up" THEN SCALE_UP
    ELSE IF recommended = "escalate" THEN ESCALATE
    ELSE IF recommended = "ignore" THEN NO_ACTION
    ELSE NOTIFY

\* ActionHistory.count_actions: an entry older than the cutoff is passed over.
count_actions(target_service, action_type, minutes) ==
    Cardinality({i \in 1..Len(rec_history) :
        /\ ~(rec_history[i].timestamp < now - minutes)
        /\ rec_history[i].target_service = target_service
        /\ rec_history[i].action_type = action_type})

\* ActionRecommender._is_action_allowed
is_action_allowed(action_type, service) ==
    IF action_type = RESTART_SERVICE /\ ~settings.allow_restart THEN FALSE
    ELSE IF action_type = REDEPLOY /\ ~settings.allow_redeploy THEN FALSE
    ELSE IF action_type \in {RESTART_SERVICE, RESTART_INSTANCE}
    THEN /\ ~(count_actions(service, action_type, HourMinutes)
                >= settings.max_restarts_per_hour)
         /\ count_actions(service, action_type, settings.cooldown_minutes) = 0
    ELSE TRUE

\* ActionRecommender._requires_approval
requires_approval(action_type) ==
    IF action_type \in settings.require_approval_for THEN TRUE
    ELSE action_type \in {REDEPLOY, RESTART_INSTANCE}

\* ActionRecommendation.is_safe_to_execute
is_safe_to_execute(action) ==
    /\ ~action.requires_approval
    /\ action.risk_level \in {LOW, MEDIUM}
    /\ action.confidence >= 70

\* The fallback of recommend_for_analysis without its test of the severity.
primary_action_notify_only(analysis) ==
    LET mapped == map_recommended_action(analysis.recommended_action)
    IN IF is_action_allowed(mapped, analysis.source_service) THEN mapped ELSE NOTIFY

\* recommend_for_analysis: the kind of the primary action.
primary_action(analysis) ==
    LET mapped == map_recommended_action(analysis.recommended_action)
    IN IF is_action_allowed(mapped, analysis.source_service) THEN mapped
       ELSE IF analysis.severity = "critical" THEN ESCALATE
       ELSE NOTIFY

\* recommend_for_analysis with the notification appended (actions.append) where the code
\* has actions.insert(0, notify).
recommend_for_analysis_notify_appended(analysis, service_health) ==
    LET kind == primary_action(analysis)
        primary == ActionRecommendation(kind, analysis.source_service, action_risks(kind),
                        analysis.confidence, requires_approval(kind), analysis_parameters)
        notify == ActionRecommendation(NOTIFY, analysis.source_service, LOW, 100, FALSE,
                        EmptyDict)
        escalate == ActionRecommendation(ESCALATE, analysis.source_service, LOW, 100, FALSE,
                        EmptyDict)
    IN <<primary>>
       \o (IF service_health = UNHEALTHY THEN <<notify>> ELSE <<>>)
       \o (IF analysis.severity = "critical" /\ kind # ESCALATE THEN <<escalate>> ELSE <<>>)

\* ActionRecommender.recommend_for_analysis: plan.actions.
recommend_for_analysis(analysis, service_health) ==
    LET kind == primary_action(analysis)
        primary == ActionRecommendation(kind, analysis.source_service, action_risks(kind),
                        analysis.confidence, requires_approval(kind), analysis_parameters)
        notify == ActionRecommendation(NOTIFY, analysis.source_service, LOW, 100, FALSE,
                        EmptyDict)
        escalate == ActionRecommendation(ESCALATE, analysis.source_service, LOW, 100, FALSE,
                        EmptyDict)
    IN (IF service_health = UNHEALTHY THEN <<notify>> ELSE <<>>)
       \o <<primary>>
       \o (IF analysis.severity = "critical" /\ kind # ESCALATE THEN <<escalate>> ELSE <<>>)

\* Appending the actions of a plan, from position i on, to the recommender's history.
RECURSIVE record_actions(_, _, _, _)
record_actions(hist, actions, i, success) ==
    IF i > Len(actions) THEN hist
    ELSE record_actions(
            IF actions[i].action_type \in {NOTIFY, ESCALATE, NO_ACTION} THEN hist
            ELSE AppendCapped(hist,
                    [action_type |-> actions[i].action_type,
                     target_service |-> actions[i].target_service,
                     success |-> success, timestamp |-> now],
                    recommender_max_history),
            actions, i + 1, success)

\* ActionRecommender.record_execution: history._actions after the call.
record_execution(plan, success) == record_actions(rec_history, plan.actions, 1, success)

\* recommend_for_health_change taking every HEALTHY state for a recovery.
recommend_for_health_change_any_healthy(service, state, previous_state) ==
    LET action_type == IF is_action_allowed(RESTART_SERVICE, service)
                       THEN RESTART_SERVICE ELSE ESCALATE
    IN IF state = UNHEALTHY
       THEN <<ActionRecommendation(action_type, service, action_risks(action_type), 80,
                    requires_approval(action_type), EmptyDict),
              ActionRecommendation(NOTIFY, service, LOW, 100, FALSE, EmptyDict)>>
       ELSE IF state = DEGRADED
       THEN <<ActionRecommendation(NOTIFY, service, LOW, 90, FALSE, EmptyDict)>>
       ELSE IF state = HEALTHY
       THEN <<ActionRecommendation(NOTIFY, service, LOW, 100, FALSE, EmptyDict)>>
       ELSE <<ActionRecommendation(NO_ACTION, service, LOW, 100, FALSE, EmptyDict)>>

\* recommend_for_health_change: plan.actions.
recommend_for_health_change(service, state, previous_state) ==
    LET action_type == IF is_action_allowed(RESTART_SERVICE, service)
                       THEN RESTART_SERVICE ELSE ESCALATE
    IN IF state = UNHEALTHY
       THEN <<ActionRecommendation(action_type, service, action_risks(action_type), 80,
                    requires_approval(action_type), EmptyDict),
              ActionRecommendation(NOTIFY, service, LOW, 100, FALSE, EmptyDict)>>
       ELSE IF state = DEGRADED
       THEN <<ActionRecommendation(NOTIFY, service, LOW, 90, FALSE, EmptyDict)>>
       ELSE IF state = HEALTHY /\ previous_state \in {UNHEALTHY, DEGRADED}
       THEN <<ActionRecommendation(NOTIFY, service, LOW, 100, FALSE, EmptyDict)>>
       ELSE <<ActionRecommendation(NO_ACTION, service, LOW, 100, FALSE, EmptyDict)>>

\* ActionPlan.requires_approval
plan_requires_approval(actions) ==
    \E i \in 1..Len(actions) : actions[i].requires_approval

\* The approval callback called with every plan.
request_approval_every_plan(t, actions) ==
    IF approval_callback # NoneVal
    THEN Append(approval_callback, [task |-> t, approved |-> FALSE])
    ELSE approval_callback

\* "if plan.requires_approval and self.approval_callback: self.approval_callback(plan)":
\* the callback's log of calls afterwards.
request_approval(t, actions) ==
    IF plan_requires_approval(actions) /\ approval_callback # NoneVal
    THEN Append(approval_callback, [task |-> t, approved |-> FALSE])
    ELSE approval_callback

\* A caller's recommend_for_analysis(analysis, service_health): the plan is its to keep.
RecommendForAnalysis(t, analysis, service_health) ==
    LET actions == recommend_for_analysis(analysis, service_health)
    IN /\ tasks[t].pc = "idle"
       /\ running = 0
       /\ tasks' = [tasks EXCEPT ![t] =
                [IdleTask EXCEPT !.pc = "planned", !.caller = "direct",
                                 !.service = analysis.source_service,
                                 !.analysis = analysis,
                                 !.plan.actions = actions]]
       /\ approval_callback' = request_approval(t, actions)
       /\ UNCHANGED <<running, api_calls, hook_calls, execution_history, rec_history,
                      callbacks>>
       /\ UNCHANGED guardVars

\* A caller's recommend_for_health_change(service_health, previous_state).
RecommendForHealthChange(t, service, state, previous_state) ==
    LET actions == recommend_for_health_change(service, state, previous_state)
    IN /\ tasks[t].pc = "idle"
       /\ running = 0
       /\ tasks' = [tasks EXCEPT ![t] =
                [IdleTask EXCEPT !.pc = "planned", !.caller = "direct",
                                 !.service = service,
                                 !.health_change = [state |-> state,
                                                    previous_state |-> previous_state],
                                 !.plan.actions = actions]]
       /\ approval_callback' = request_approval(t, actions)
       /\ UNCHANGED <<running, api_calls, hook_calls, execution_history, rec_history,
                      callbacks>>
       /\ UNCHANGED guardVars

\* The caller hands the plan it was given to execute_plan.
ExecutePlanned(t, dry_run, stop_on_failure) ==
    /\ tasks[t].pc = "planned"
    /\ running = 0
    /\ tasks' = [tasks EXCEPT ![t] = enter_execute_plan(tasks[t], dry_run, stop_on_failure)]
    /\ running' = t
    /\ UNCHANGED <<api_calls, hook_calls, execution_history, rec_history, callbacks,
                   approval_callback>>
    /\ UNCHANGED guardVars

\* The caller's record_execution(plan, success) for the plan it was given, after which it
\* lets go of the plan.
RecordPlanned(t, success) ==
    /\ tasks[t].pc = "planned"
    /\ running = 0
    /\ rec_history' = record_execution(tasks[t].plan, success)
    /\ tasks' = [tasks EXCEPT ![t] = IdleTask]
    /\ UNCHANGED <<running, api_calls, hook_calls, execution_history, callbacks,
                   approval_callback>>
    /\ UNCHANGED guardVars

\* approve_plan(plan, approved_by): "plan.approved = True".
approve_plan(plan) == [plan EXCEPT !.approved = TRUE]

\* An operator's approve_plan for the plan the caller was given.
ApprovePlan(t) ==
    /\ tasks[t].pc = "planned"
    /\ running = 0
    /\ ~tasks[t].plan.approved
    /\ tasks' = [tasks EXCEPT ![t].plan = approve_plan(tasks[t].plan)]
    /\ UNCHANGED <<running, api_calls, hook_calls, execution_history, rec_history,
                   callbacks, approval_callback>>
    /\ UNCHANGED guardVars

(***************************************************************************)
(* MonitorApp: the analysis pipeline                                       *)
(***************************************************************************)
\* "for action in plan.actions" of _analyze_and_respond: the task after moving to index
\* outer, and whether it goes on running.
next_check(tk, outer) ==
    [tk EXCEPT !.outer = outer,
               !.pc = IF outer > Len(tk.plan.actions) THEN "done" ELSE "check"]

\* MonitorApp._on_error_detected: asyncio.create_task(self._analyze_and_respond(...)); the
\* new task runs up to its await of quick_triage.
ErrorDetected(t, source_app) ==
    /\ tasks[t].pc = "idle"
    /\ running = 0
    /\ tasks' = [tasks EXCEPT ![t] =
            [IdleTask EXCEPT !.pc = "triage", !.caller = "pipeline",
                             !.service = source_app]]
    /\ UNCHANGED <<running, api_calls, hook_calls, execution_history, rec_history,
                   callbacks, approval_callback>>
    /\ UNCHANGED guardVars

\* _analyze_and_respond from the answer of quick_triage to the plan of the recommender.
TriageReturn(t, analysis, service_health) ==
    /\ tasks[t].pc = "triage"
    /\ running = 0
    /\ analysis.source_service = tasks[t].service
    /\ tasks' = [tasks EXCEPT ![t] =
            next_check([tasks[t] EXCEPT !.plan.actions =
                            recommend_for_analysis(analysis, service_health)], 1)]
    /\ approval_callback' =
            request_approval(t, recommend_for_analysis(analysis, service_health))
    /\ running' = t
    /\ UNCHANGED <<api_calls, hook_calls, execution_history, rec_history, callbacks>>
    /\ UNCHANGED guardVars

\* _analyze_and_respond: one turn of "for action in plan.actions" up to the call of
\* execute_plan, or to the next turn when the action is not executed.
CheckStep(t) ==
    LET action == tasks[t].plan.actions[tasks[t].outer]
        safety_result == check_action_result(action.action_type, action.target_service,
                                             action.risk_level)
        after == IF safety_result = ALLOWED /\ is_safe_to_execute(action)
                 THEN enter_execute_plan(tasks[t], FALSE, TRUE)
                 ELSE next_check(tasks[t], tasks[t].outer + 1)
    IN /\ tasks[t].pc = "check"
       /\ running = t
       /\ GuardCheck(action.action_type, action.target_service, action.risk_level)
       /\ tasks' = [tasks EXCEPT ![t] = after]
       /\ running' = IF after.pc = "done" THEN 0 ELSE t
       /\ UNCHANGED <<api_calls, hook_calls, execution_history, rec_history, callbacks,
                      approval_callback>>

\* _analyze_and_respond: execute_plan has returned; record_execution, then the next turn.
RecordExecution(t) ==
    LET after == next_check(
                    [tasks[t] EXCEPT !.plan.executed = TRUE,
                                     !.plan.execution_result =
                                        tasks[t].result.overall_status],
                    tasks[t].outer + 1)
    IN /\ tasks[t].pc = "record_execution"
       /\ running = t
       /\ rec_history' =
            record_execution(tasks[t].plan, tasks[t].result.overall_status = SUCCESS)
       /\ tasks' = [tasks EXCEPT ![t] = after]
       /\ running' = IF after.pc = "done" THEN 0 ELSE t
       /\ UNCHANGED <<api_calls, hook_calls, execution_history, callbacks,
                      approval_callback>>
       /\ UNCHANGED guardVars

(***************************************************************************)
(* The guard driven through its interface                                  *)
(***************************************************************************)
\* SafetyGuard.__init__ with the settings given.
GuardInit(choices) ==
    /\ now = StartTime
    /\ settings \in choices
    /\ action_history = <<>>
    /\ circuit_breakers = EmptyDict
    /\ circuit_last_failure = EmptyDict
    /\ circuit_reset_at = [s \in Services |-> 0]
    /\ change_freezes = <<>>
    /\ violations = <<>>

\* No task exists; the executor is built with the hooks given.
AppInit(choices) ==
    /\ tasks = [t \in Tasks |-> IdleTask]
    /\ running = 0
    /\ api_calls = <<>>
    /\ hook_calls = <<>>
    /\ execution_history = <<>>
    /\ callbacks \in choices
    /\ rec_history = <<>>
    /\ approval_callback = <<>>

\* The environment keeps within the bounds of the model.
ClockLeft == now + TickMinutes <= StartTime + MaxTicks * TickMinutes

\* A check that records a violation needs room in the bounded log.
ViolationRoom(action_type, target_service, risk_level) ==
    \/ check_action_violation(action_type, target_service, risk_level) = "none"
    \/ Len(violations) < MaxViolations

\* Rate limits and cooldowns: no change freeze is ever added.
RateSettings ==
    [allow_restart : {TRUE}, allow_redeploy : {FALSE},
     max_restarts_per_hour : 1..MaxRestarts,
     cooldown_minutes : CooldownChoices,
     require_approval_for : {{"redeploy", "terminate"}}]

RecTargets ==
    {<<RESTART_SERVICE, "web-1">>, <<RESTART_INSTANCE, "web-1">>, <<REDEPLOY, "web-1">>,
     <<RESTART_SERVICE, "amplify-app">>}

CheckArgs ==
    {<<RESTART_SERVICE, "web-1", MEDIUM>>, <<RESTART_INSTANCE, "web-1", HIGH>>,
     <<REDEPLOY, "web-1", HIGH>>, <<RESTART_SERVICE, "amplify-app", MEDIUM>>,
     <<NOTIFY, "web-1", LOW>>}

InitGuard == GuardInit(RateSettings) /\ AppInit({"none"})

NextGuard ==
    \/ ClockLeft /\ Tick /\ UNCHANGED appVars
    \/ \E t \in RecTargets, ok \in BOOLEAN :
            Len(action_history) < MaxRecords /\ RecordAction(t[1], t[2], ok)
            /\ UNCHANGED appVars
    \/ \E c \in CheckArgs : ViolationRoom(c[1], c[2], c[3]) /\ CheckAction(c[1], c[2], c[3])
            /\ UNCHANGED appVars

SpecGuard == InitGuard /\ [][NextGuard]_vars

\* Circuit breakers: failures and successes on two services, the operator's override.
CircuitSettings ==
    [allow_restart : {TRUE}, allow_redeploy : {FALSE},
     max_restarts_per_hour : {MaxRestarts},
     cooldown_minutes : {30},
     require_approval_for : {{"redeploy", "terminate"}}]

CircuitRecTargets == {<<RESTART_SERVICE, "web-1">>, <<NOTIFY, "amplify-app">>}

CircuitCheckArgs == {<<RESTART_SERVICE, "web-1", MEDIUM>>, <<NOTIFY, "amplify-app", LOW>>}

InitCircuit == GuardInit(CircuitSettings) /\ AppInit({"none"})

NextCircuit ==
    \/ ClockLeft /\ Tick /\ UNCHANGED appVars
    \/ \E t \in CircuitRecTargets, ok \in BOOLEAN :
            Len(action_history) < MaxCircuitRecords /\ RecordAction(t[1], t[2], ok)
            /\ UNCHANGED appVars
    \/ \E c \in CircuitCheckArgs :
            ViolationRoom(c[1], c[2], c[3]) /\ CheckAction(c[1], c[2], c[3])
            /\ UNCHANGED appVars
    \/ \E s \in Services : OverrideCircuitBreaker(s) /\ UNCHANGED appVars

SpecCircuit == InitCircuit /\ [][NextCircuit]_vars

\* Two services restarted, checked and overridden side by side.
IsolationChecks == {<<RESTART_SERVICE, s, MEDIUM>> : s \in Services}

InitIsolation == GuardInit(CircuitSettings) /\ AppInit({"none"})

NextIsolation ==
    \/ ClockLeft /\ Tick /\ UNCHANGED appVars
    \/ \E s \in Services, ok \in BOOLEAN :
            Len(action_history) < MaxCircuitRecords /\ RecordAction(RESTART_SERVICE, s, ok)
            /\ UNCHANGED appVars
    \/ \E c \in IsolationChecks :
            ViolationRoom(c[1], c[2], c[3]) /\ CheckAction(c[1], c[2], c[3])
            /\ UNCHANGED appVars
    \/ \E s \in Services : OverrideCircuitBreaker(s) /\ UNCHANGED appVars

SpecIsolation == InitIsolation /\ [][NextIsolation]_vars

\* One circuit followed through its opening, its expiry and its opening again.
InitReset == GuardInit(CircuitSettings) /\ AppInit({"none"})

NextReset ==
    \/ ClockLeft /\ Tick /\ UNCHANGED appVars
    \/ \E ok \in BOOLEAN :
            Len(action_history) < MaxResetRecords /\ RecordAction(NOTIFY, "web-1", ok)
            /\ UNCHANGED appVars
    \/ ViolationRoom(NOTIFY, "web-1", LOW) /\ CheckAction(NOTIFY, "web-1", LOW)
            /\ UNCHANGED appVars

SpecReset == InitReset /\ [][NextReset]_vars

\* Change freezes together with the other checks, on one service.
FreezeSettings ==
    [allow_restart : {TRUE}, allow_redeploy : {FALSE},
     max_restarts_per_hour : {1, MaxRestarts},
     cooldown_minutes : {30},
     require_approval_for : {{"redeploy", "terminate"}, {"restart_service"}}]

FreezeRecTargets == {<<RESTART_SERVICE, "web-1">>}

FreezeCheckArgs ==
    {<<RESTART_SERVICE, "web-1", MEDIUM>>, <<RESTART_SERVICE, "web-1", HIGH>>,
     <<NOTIFY, "web-1", LOW>>}

InitFreeze == GuardInit(FreezeSettings) /\ AppInit({"none"})

NextFreeze ==
    \/ ClockLeft /\ Tick /\ UNCHANGED appVars
    \/ \E t \in FreezeRecTargets, ok \in BOOLEAN :
            Len(action_history) < MaxRecords /\ RecordAction(t[1], t[2], ok)
            /\ UNCHANGED appVars
    \/ \E c \in FreezeCheckArgs :
            ViolationRoom(c[1], c[2], c[3]) /\ CheckAction(c[1], c[2], c[3])
            /\ UNCHANGED appVars
    \/ \E n \in FreezeNames, w \in FreezeWindows, a \in AllowedArgs :
            Len(change_freezes) < MaxFreezes /\ AddChangeFreeze(n, w[1], w[2], a)
            /\ UNCHANGED appVars
    \/ \E n \in FreezeNames : RemoveChangeFreeze(n) /\ UNCHANGED appVars

SpecFreeze == InitFreeze /\ [][NextFreeze]_vars

\* The executor called on its own: any plan, both flags, with and without hooks; the
\* hooks and the Cloud Provider API answer as the environment chooses.
ExecActions ==
    {ActionRecommendation(RESTART_INSTANCE, "web-1", HIGH, 100, TRUE,
        "instance_id" :> "i-1"),
     ActionRecommendation(RESTART_SERVICE, "web-1", MEDIUM, 90, FALSE,
        "instance_id" :> "i-1"),
     ActionRecommendation(RESTART_SERVICE, "amplify-app", MEDIUM, 90, FALSE,
        "app_id" :> "app-1"),
     ActionRecommendation(REDEPLOY, "amplify-app", HIGH, 90, TRUE,
        "app_id" :> "app-1"),
     ActionRecommendation(REDEPLOY, "amplify-app", HIGH, 90, TRUE,
        analysis_parameters),
     ActionRecommendation(NOTIFY, "web-1", LOW, 100, FALSE, EmptyDict),
     ActionRecommendation(NO_ACTION, "web-1", LOW, 100, FALSE, EmptyDict),
     ActionRecommendation(SCALE_UP, "web-1", MEDIUM, 90, FALSE, analysis_parameters)}

\* A reboot that waits for the instance to recover.
RebootAndWait ==
    ActionRecommendation(RESTART_INSTANCE, "web-1", HIGH, 100, TRUE,
        "instance_id" :> "i-1" @@ "wait_for_recovery" :> "yes")

\* One action of each kind, carrying both identifiers.
EveryKind ==
    {ActionRecommendation(k, "web-1", LOW, 100, FALSE,
        "instance_id" :> "i-1" @@ "app_id" :> "app-1") : k \in ActionType}

\* The actions of the longest plans: one that calls the API, one that fails before any
\* call, one that succeeds without a call.
LongPlanActions ==
    {ActionRecommendation(RESTART_SERVICE, "web-1", MEDIUM, 90, FALSE,
        "instance_id" :> "i-1"),
     ActionRecommendation(REDEPLOY, "amplify-app", HIGH, 90, TRUE,
        analysis_parameters),
     ActionRecommendation(NOTIFY, "web-1", LOW, 100, FALSE, EmptyDict)}

ExecPlans ==
    {<<>>} \cup UNION {[1..n -> ExecActions] : n \in 1..(MaxPlanLen - 1)}
           \cup [1..MaxPlanLen -> LongPlanActions]
           \cup {<<RebootAndWait>>} \cup {<<RebootAndWait, a>> : a \in ExecActions}
           \cup {<<a>> : a \in EveryKind}

ExecSettings ==
    [allow_restart : {TRUE}, allow_redeploy : {FALSE},
     max_restarts_per_hour : {MaxRestarts},
     cooldown_minutes : {30},
     require_approval_for : {{"redeploy", "terminate"}}]

InitExec == GuardInit(ExecSettings) /\ AppInit({"none", "stand-in"})

NextExec ==
    \/ \E actions \in ExecPlans, dry_run \in BOOLEAN, stop_on_failure \in BOOLEAN :
            ExecutePlan(1, actions, dry_run, stop_on_failure)
    \/ PreHookNone(1)
    \/ \E outcome \in {"true", "false", "raise"} : PreHookStandIn(1, outcome)
    \/ ExecuteAction(1)
    \/ \E outcome \in ApiOutcomes : ApiReturn(1, outcome)
    \/ \E outcome \in StatusOutcomes, took \in {0, timeout_s} :
            StatusReturn(1, outcome, took)
    \/ \E slept \in {poll_sleep_s, timeout_s} : RecoverySleep(1, slept)
    \/ PostHookNone(1)
    \/ \E raises \in BOOLEAN : PostHookStandIn(1, raises)
    \/ Finish(1)

SpecExec == InitExec /\ [][NextExec]_vars

\* One executor without hooks called again and again: the first FreeCalls calls with any
\* of three plans and either flag, the later ones with a plan that alternates.
HistoryPlans(n) ==
    IF n <= FreeCalls
    THEN {<<>>,
          <<ActionRecommendation(NOTIFY, "web-1", LOW, 100, FALSE, EmptyDict)>>,
          <<ActionRecommendation(REDEPLOY, "amplify-app", HIGH, 90, TRUE,
                analysis_parameters),
            ActionRecommendation(NOTIFY, "web-1", LOW, 100, FALSE, EmptyDict)>>}
    ELSE IF n % 2 = 0
    THEN {<<>>}
    ELSE {<<ActionRecommendation(NOTIFY, "web-1", LOW, 100, FALSE, EmptyDict)>>}

HistoryFlags(n) == IF n <= FreeCalls THEN BOOLEAN ELSE {TRUE}

InitHistory == GuardInit(ExecSettings) /\ AppInit({"none"})

NextHistory ==
    \/ \E actions \in HistoryPlans(1), stop_on_failure \in HistoryFlags(1) :
            ExecutePlan(1, actions, FALSE, stop_on_failure)
    \/ /\ tasks[1].calls < MaxCalls
       /\ \E actions \in HistoryPlans(tasks[1].calls + 1),
             stop_on_failure \in HistoryFlags(tasks[1].calls + 1) :
                ExecutePlanAgain(1, actions, FALSE, stop_on_failure)
    \/ PreHookNone(1)
    \/ ExecuteAction(1)
    \/ PostHookNone(1)
    \/ Finish(1)

SpecHistory == InitHistory /\ [][NextHistory]_vars

\* The recommender driven through its interface, with and without an approval callback;
\* the plans it returns are recorded as executed or, the last one, handed to an executor
\* without hooks.
RecommenderSettings ==
    [allow_restart : BOOLEAN, allow_redeploy : BOOLEAN,
     max_restarts_per_hour : {MaxRestarts},
     cooldown_minutes : {20},
     require_approval_for : {{"redeploy", "terminate"}, {"restart_service"}}]

RecommenderAnalyses ==
    [recommended_action : RecommendedAction, severity : {"critical", "error"},
     confidence : {90}, source_service : {"web-1"}]

HealthStates == {HEALTHY, DEGRADED, UNHEALTHY, UNKNOWN}

InitRecommender ==
    /\ GuardInit(RecommenderSettings)
    /\ tasks = [t \in Tasks |-> IdleTask]
    /\ running = 0
    /\ api_calls = <<>>
    /\ hook_calls = <<>>
    /\ execution_history = <<>>
    /\ callbacks = "none"
    /\ rec_history = <<>>
    /\ approval_callback \in {NoneVal, <<>>}

\* The approval callback's log has room for one more call.
ApprovalRoom ==
    approval_callback = NoneVal \/ Len(approval_callback) < MaxApprovalCalls

NextRecommender ==
    \/ running = 0 /\ ClockLeft /\ Tick /\ UNCHANGED appVars
    \/ /\ ApprovalRoom
       /\ \E a \in RecommenderAnalyses, h \in HealthStates \cup {NoneVal} :
                RecommendForAnalysis(1, a, h)
    \/ /\ ApprovalRoom
       /\ \E state \in HealthStates, previous_state \in HealthStates \cup {NoneVal} :
                RecommendForHealthChange(1, "web-1", state, previous_state)
    \/ /\ Len(execution_history) < MaxExecutions
       /\ ExecutePlanned(1, FALSE, TRUE)
    \/ PreHookNone(1)
    \/ ExecuteAction(1)
    \/ PostHookNone(1)
    \/ Finish(1)
    \/ /\ Len(rec_history) < MaxRestarts
       /\ \E success \in BOOLEAN : RecordPlanned(1, success)

SpecRecommender == InitRecommender /\ [][NextRecommender]_vars

\* One executor without hooks: a plan of one action in the first task, a call of
\* execute_single_action in the second.
SingleParameters ==
    {EmptyDict, "instance_id" :> "i-1", "app_id" :> "app-1"}

InitSingle == GuardInit(ExecSettings) /\ AppInit({"none"})

NextSingle ==
    \/ \E k \in ActionType, s \in Services, p \in SingleParameters, dry_run \in BOOLEAN :
            ExecutePlan(1, <<ActionRecommendation(k, s, LOW, 100, FALSE, p)>>, dry_run, TRUE)
    \/ PreHookNone(1)
    \/ ExecuteAction(1)
    \/ \E outcome \in ApiOutcomes : ApiReturn(1, outcome)
    \/ PostHookNone(1)
    \/ Finish(1)
    \/ \E k \in ActionType, s \in Services, p \in SingleParameters, dry_run \in BOOLEAN :
            ExecuteSingleAction(2, k, s, p, dry_run)

SpecSingle == InitSingle /\ [][NextSingle]_vars

\* MonitorApp: errors detected on the services, analysed in concurrent tasks; the tasks are
\* created in the order of their numbers.
AppSettings ==
    {[allow_restart |-> TRUE, allow_redeploy |-> FALSE,
      max_restarts_per_hour |-> MaxRestarts, cooldown_minutes |-> 30,
      require_approval_for |-> {"redeploy", "terminate"}],
     [allow_restart |-> TRUE, allow_redeploy |-> TRUE,
      max_restarts_per_hour |-> MaxRestarts, cooldown_minutes |-> 30,
      require_approval_for |-> {}]}

\* ErrorSeverity
ErrorSeverity == {"critical", "error", "warning", "info"}

\* _parse_triage_response: any severity and any recommended action, confidence 0.7.
ParsedAnalyses(source_app) ==
    [recommended_action : RecommendedAction, severity : ErrorSeverity,
     confidence : {70}, source_service : {source_app}]

\* _fallback_analysis: the severity of the error, the action of _heuristic_action (ESCALATE
\* for a critical error), confidence 0.3.
FallbackAnalyses(source_app) ==
    {a \in [recommended_action : {"check_dependencies", "fix_configuration",
                                  "restart_service", "escalate", "investigate"},
            severity : ErrorSeverity, confidence : {30}, source_service : {source_app}] :
        a.severity = "critical" => a.recommended_action = "escalate"}

\* What quick_triage can answer for an error of source_app.
Analyses(source_app) == ParsedAnalyses(source_app) \cup FallbackAnalyses(source_app)

HealthChoices == {NoneVal, HEALTHY, UNHEALTHY}

InitApp == GuardInit(AppSettings) /\ AppInit({"guard"})

NextApp ==
    \/ running = 0 /\ ClockLeft /\ Tick /\ UNCHANGED appVars
    \/ \E t \in Tasks, s \in Services :
            (\A u \in Tasks : u < t => tasks[u].pc # "idle") /\ ErrorDetected(t, s)
    \/ \E t \in Tasks, s \in Services :
            \E a \in Analyses(s), h \in HealthChoices : TriageReturn(t, a, h)
    \/ \E t \in Tasks : CheckStep(t)
    \/ \E t \in Tasks : PreHookGuard(t)
    \/ \E t \in Tasks : ExecuteAction(t)
    \/ \E t \in Tasks : PostHookGuard(t)
    \/ \E t \in Tasks : Finish(t)
    \/ \E t \in Tasks : RecordExecution(t)

SpecApp == InitApp /\ [][NextApp]_vars

\* MonitorApp with a cooldown of two steps of the clock: an analysis task that runs one
\* step after another task's dispatch runs inside the cooldown of that dispatch.
LongCooldownSettings ==
    {[s EXCEPT !.cooldown_minutes = 2 * TickMinutes] : s \in AppSettings}

InitInterleaved == GuardInit(LongCooldownSettings) /\ AppInit({"guard"})

SpecInterleaved == InitInterleaved /\ [][NextApp]_vars

\* One plan of the recommender, run by the pipeline of MonitorApp or by a direct call of
\* execute_plan on an executor with any hooks.
ApprovalSettings ==
    [allow_restart : BOOLEAN, allow_redeploy : BOOLEAN,
     max_restarts_per_hour : {MaxRestarts},
     cooldown_minutes : {30},
     require_approval_for : {{"redeploy", "terminate"}, {}, {"restart_service"}}]

InitApproval == GuardInit(ApprovalSettings) /\ AppInit({"none", "stand-in", "guard"})

NextApproval ==
    \/ running = 0 /\ ClockLeft /\ Tick /\ UNCHANGED appVars
    \/ \E s \in Services : callbacks = "guard" /\ ErrorDetected(1, s)
    \/ \E s \in Services :
            \E a \in Analyses(s), h \in HealthChoices : TriageReturn(1, a, h)
    \/ CheckStep(1)
    \/ \E s \in Services :
            \E a \in Analyses(s), h \in HealthChoices, stop_on_failure \in BOOLEAN :
                ExecutePlan(1, recommend_for_analysis(a, h), FALSE, stop_on_failure)
    \/ PreHookNone(1)
    \/ \E outcome \in {"true", "false", "raise"} : PreHookStandIn(1, outcome)
    \/ PreHookGuard(1)
    \/ ExecuteAction(1)
    \/ PostHookNone(1)
    \/ \E raises \in BOOLEAN : PostHookStandIn(1, raises)
    \/ PostHookGuard(1)
    \/ Finish(1)
    \/ RecordExecution(1)

SpecApproval == InitApproval /\ [][NextApproval]_vars

\* The executor of MonitorApp (pre hook _pre_execution_check, post hook
\* _post_execution_log) handed plans whose actions carry their identifiers.
WiredActions ==
    {ActionRecommendation(RESTART_SERVICE, "web-1", MEDIUM, 90, FALSE,
        "instance_id" :> "i-1"),
     ActionRecommendation(RESTART_INSTANCE, "web-1", HIGH, 100, TRUE,
        "instance_id" :> "i-1"),
     ActionRecommendation(REDEPLOY, "amplify-app", MEDIUM, 90, TRUE,
        "app_id" :> "app-1"),
     ActionRecommendation(NOTIFY, "web-1", LOW, 100, FALSE, EmptyDict),
     ActionRecommendation(NO_ACTION, "web-1", LOW, 100, FALSE, EmptyDict)}

WiredPlans == UNION {[1..n -> WiredActions] : n \in 1..MaxPlanLen}

InitWired == GuardInit(ExecSettings) /\ AppInit({"guard"})

NextWired ==
    \/ running = 0 /\ ClockLeft /\ Tick /\ UNCHANGED appVars
    \/ \E actions \in WiredPlans, dry_run \in BOOLEAN, stop_on_failure \in BOOLEAN :
            ExecutePlan(1, actions, dry_run, stop_on_failure)
    \/ PreHookGuard(1)
    \/ ExecuteAction(1)
    \/ \E outcome \in ApiOutcomes : ApiReturn(1, outcome)
    \/ PostHookGuard(1)
    \/ Finish(1)

SpecWired == InitWired /\ [][NextWired]_vars

\* The guard asked about whole plans: check_plan beside check_action and record_action.
PlanCheckArgs ==
    {<<RESTART_SERVICE, "web-1", HIGH>>, <<ESCALATE, "amplify-app", CRITICAL>>,
     <<NOTIFY, "web-1", LOW>>}

CheckedPlans ==
    UNION {[1..n -> {ActionRecommendation(c[1], c[2], c[3], 90, FALSE, EmptyDict) :
                        c \in PlanCheckArgs}] : n \in 1..2}

InitPlanCheck == GuardInit(CircuitSettings) /\ AppInit({"none"})

NextPlanCheck ==
    \/ ClockLeft /\ Tick /\ UNCHANGED appVars
    \/ \E t \in CircuitRecTargets, ok \in BOOLEAN :
            Len(action_history) < MaxRecords /\ RecordAction(t[1], t[2], ok)
            /\ UNCHANGED appVars
    \/ \E c \in PlanCheckArgs :
            Len(violations) < MaxPlanViolations /\ CheckAction(c[1], c[2], c[3])
            /\ UNCHANGED appVars
    \/ \E actions \in CheckedPlans :
            Len(violations) + Len(actions) <= MaxPlanViolations /\ CheckPlan(actions)
            /\ UNCHANGED appVars

SpecPlanCheck == InitPlanCheck /\ [][NextPlanCheck]_vars

\* The recommender and the executor of MonitorApp (hooks of the guard): a plan is
\* returned, an operator may approve it, and the caller hands it to execute_plan.
ApprovedSettings ==
    [allow_restart : {TRUE}, allow_redeploy : BOOLEAN,
     max_restarts_per_hour : {MaxRestarts},
     cooldown_minutes : {30},
     require_approval_for : {{"redeploy", "terminate"}, {"restart_service"}}]

InitApproved == GuardInit(ApprovedSettings) /\ AppInit({"guard"})

NextApproved ==
    \/ running = 0 /\ ClockLeft /\ Tick /\ UNCHANGED appVars
    \/ \E a \in RecommenderAnalyses, h \in HealthStates \cup {NoneVal} :
            RecommendForAnalysis(1, a, h)
    \/ \E state \in HealthStates, previous_state \in HealthStates \cup {NoneVal} :
            RecommendForHealthChange(1, "web-1", state, previous_state)
    \/ ApprovePlan(1)
    \/ \E stop_on_failure \in BOOLEAN : ExecutePlanned(1, FALSE, stop_on_failure)
    \/ PreHookGuard(1)
    \/ ExecuteAction(1)
    \/ PostHookGuard(1)
    \/ Finish(1)

SpecApproved == InitApproved /\ [][NextApproved]_vars

\* The executor of MonitorApp called again and again by one caller, one plan at a time.
RunActions ==
    {ActionRecommendation(RESTART_SERVICE, "web-1", MEDIUM, 90, FALSE,
        "instance_id" :> "i-1"),
     ActionRecommendation(NOTIFY, "web-1", LOW, 100, FALSE, EmptyDict),
     ActionRecommendation(SCALE_UP, "web-1", MEDIUM, 90, FALSE, EmptyDict),
     ActionRecommendation(NO_ACTION, "web-1", LOW, 100, FALSE, EmptyDict)}

RunPlans == UNION {[1..n -> RunActions] : n \in 1..2}

RunSettings ==
    [allow_restart : {TRUE}, allow_redeploy : {FALSE},
     max_restarts_per_hour : 1..MaxRestarts,
     cooldown_minutes : {30},
     require_approval_for : {{"redeploy", "terminate"}}]

InitRuns == GuardInit(RunSettings) /\ AppInit({"guard"})

NextRuns ==
    \/ running = 0 /\ ClockLeft /\ Tick /\ UNCHANGED appVars
    \/ \E actions \in RunPlans, stop_on_failure \in BOOLEAN :
            ExecutePlan(1, actions, FALSE, stop_on_failure)
    \/ /\ tasks[1].calls < MaxRuns
       /\ \E actions \in RunPlans, stop_on_failure \in BOOLEAN :
            ExecutePlanAgain(1, actions, FALSE, stop_on_failure)
    \/ PreHookGuard(1)
    \/ ExecuteAction(1)
    \/ \E outcome \in ApiOutcomes : ApiReturn(1, outcome)
    \/ PostHookGuard(1)
    \/ Finish(1)

SpecRuns == InitRuns /\ [][NextRuns]_vars

\* Reboots that wait for the recovery of the instance: get_instance_status always answers
\* in the end (healthy, unhealthy or with an exception), and the loop sleeps between polls.
RecoveryPlans ==
    {<<RebootAndWait>>} \cup {<<RebootAndWait, a>> : a \in ExecActions}
                        \cup {<<a, RebootAndWait>> : a \in ExecActions}

InitRecovery == GuardInit(ExecSettings) /\ AppInit({"none"})

StatusAnswers ==
    \E outcome \in StatusOutcomes, took \in {0, timeout_s} : StatusReturn(1, outcome, took)

SleepEnds == \E slept \in {poll_sleep_s, timeout_s} : RecoverySleep(1, slept)

NextRecovery ==
    \/ \E actions \in RecoveryPlans, dry_run \in BOOLEAN, stop_on_failure \in BOOLEAN :
            ExecutePlan(1, actions, dry_run, stop_on_failure)
    \/ PreHookNone(1)
    \/ ExecuteAction(1)
    \/ \E outcome \in ApiOutcomes : ApiReturn(1, outcome)
    \/ StatusAnswers
    \/ SleepEnds
    \/ PostHookNone(1)
    \/ Finish(1)

SpecRecovery ==
    InitRecovery /\ [][NextRecovery]_vars /\ WF_vars(StatusAnswers) /\ WF_vars(SleepEnds)

\* Two tasks on one event loop: the first reboots an instance and waits for its recovery,
\* the second runs a plan of one action whenever the first is suspended, in a status call
\* or in the sleep between two polls.
PollingPlans == {<<a>> : a \in ExecActions}

InitPolling == GuardInit(ExecSettings) /\ AppInit({"none"})

NextPolling ==
    \/ \E dry_run \in BOOLEAN : ExecutePlan(1, <<RebootAndWait>>, dry_run, TRUE)
    \/ \E actions \in PollingPlans : ExecutePlan(2, actions, FALSE, TRUE)
    \/ \E t \in Tasks : PreHookNone(t)
    \/ \E t \in Tasks : ExecuteAction(t)
    \/ \E t \in Tasks, outcome \in ApiOutcomes : ApiReturn(t, outcome)
    \/ \E outcome \in StatusOutcomes, took \in {0, timeout_s} :
            StatusReturn(1, outcome, took)
    \/ \E slept \in {poll_sleep_s, timeout_s} : RecoverySleep(1, slept)
    \/ \E t \in Tasks : PostHookNone(t)
    \/ \E t \in Tasks : Finish(t)

SpecPolling == InitPolling /\ [][NextPolling]_vars

\* Blocks followed until they end: records are made during the first clock steps only,
\* and the clock goes on, as the wall clock does, for longer than any block lasts.
UnblockTargets == {<<RESTART_SERVICE, "web-1">>, <<REDEPLOY, "web-1">>}

UnblockCheckArgs ==
    {<<RESTART_SERVICE, "web-1", MEDIUM>>, <<REDEPLOY, "web-1", HIGH>>,
     <<NOTIFY, "web-1", LOW>>}

InitUnblock == GuardInit(RateSettings) /\ AppInit({"none"})

LateClockLeft == now + TickMinutes <= StartTime + LateTicks * TickMinutes

LateTick == LateClockLeft /\ Tick /\ UNCHANGED appVars

NextUnblock ==
    \/ LateTick
    \/ \E t \in UnblockTargets, ok \in BOOLEAN :
            /\ Len(action_history) < MaxCircuitRecords
            /\ now <= StartTime + TickMinutes
            /\ RecordAction(t[1], t[2], ok)
            /\ UNCHANGED appVars
    \/ \E c \in UnblockCheckArgs :
            ViolationRoom(c[1], c[2], c[3]) /\ CheckAction(c[1], c[2], c[3])
            /\ UNCHANGED appVars

SpecUnblock == InitUnblock /\ [][NextUnblock]_vars /\ WF_vars(LateTick)

(***************************************************************************)
(* Properties of the guard                                                 *)
(***************************************************************************)
\* The positions of the records of target_service in the guard's history.
RecordsOf(target_service) ==
    {i \in 1..Len(action_history) : action_history[i].target_service = target_service}

\* The positions of the records of (action_type, target_service) less than `minutes` old.
RecordsWithin(action_type, target_service, minutes) ==
    {i \in RecordsOf(target_service) :
        /\ action_history[i].action_type = action_type
        /\ now - action_history[i].timestamp < minutes}

SuccessesWithin(action_type, target_service, minutes) ==
    {i \in RecordsWithin(action_type, target_service, minutes) : action_history[i].success}

\* The latest entry of the violation log was recorded by a check made at this minute.
ViolationNow(check_type) ==
    /\ violations # <<>>
    /\ violations[Len(violations)].check_type = check_type
    /\ violations[Len(violations)].timestamp = now

LastViolation == violations[Len(violations)]

\* C1: once max_restarts_per_hour successful actions of a rate-limited kind K on S lie
\* less than an hour back, with the circuit of S closed and no freeze active,
\* check_action(K, S, r) returns BLOCKED_RATE_LIMIT for every risk level r.
C1_RateLimit ==
    \A k \in RateLimitedKinds, s \in Services, r \in ActionRisk :
        (/\ Cardinality(SuccessesWithin(k, s, HourMinutes)) >= settings.max_restarts_per_hour
         /\ ~is_circuit_open(s)
         /\ get_active_freeze = 0)
        => check_action_result(k, s, r) = BLOCKED_RATE_LIMIT

\* C1 witness: a check has just returned BLOCKED_RATE_LIMIT for a (K, S) that has the
\* configured maximum of two successful records within the hour.
C1_Witness ==
    /\ ViolationNow(BLOCKED_RATE_LIMIT)
    /\ settings.max_restarts_per_hour = MaxRestarts
    /\ Cardinality(SuccessesWithin(LastViolation.action_type,
                                   LastViolation.target_service, HourMinutes))
            >= settings.max_restarts_per_hour

\* The latest record of the history is of (action_type, target_service) and less than
\* cooldown_minutes old.
JustRecorded(action_type, target_service) ==
    /\ action_history # <<>>
    /\ action_history[Len(action_history)].action_type = action_type
    /\ action_history[Len(action_history)].target_service = target_service
    /\ now - action_history[Len(action_history)].timestamp < settings.cooldown_minutes

\* C2 as claimed: right after an action of a rate-limited kind K on S is recorded, a
\* check of (K, S) made before cooldown_minutes have elapsed, with the circuit closed and
\* no freeze active, returns BLOCKED_COOLDOWN under every configuration.
C2_Original ==
    \A k \in RateLimitedKinds, s \in Services, r \in ActionRisk :
        (JustRecorded(k, s) /\ ~is_circuit_open(s) /\ get_active_freeze = 0)
        => check_action_result(k, s, r) = BLOCKED_COOLDOWN

\* C2 amended: such a check returns BLOCKED_COOLDOWN when fewer than
\* max_restarts_per_hour records of (K, S) lie less than an hour back, and
\* BLOCKED_RATE_LIMIT otherwise.
C2_Cooldown ==
    \A k \in RateLimitedKinds, s \in Services, r \in ActionRisk :
        (JustRecorded(k, s) /\ ~is_circuit_open(s) /\ get_active_freeze = 0)
        => check_action_result(k, s, r) =
            IF Cardinality(RecordsWithin(k, s, HourMinutes)) < settings.max_restarts_per_hour
            THEN BLOCKED_COOLDOWN
            ELSE BLOCKED_RATE_LIMIT

\* C2 witness: a check has just returned BLOCKED_COOLDOWN for the (K, S) recorded last.
C2_Witness ==
    /\ ViolationNow(BLOCKED_COOLDOWN)
    /\ JustRecorded(LastViolation.action_type, LastViolation.target_service)

\* The latest three records of target_service are failures: their positions, {} otherwise.
LastThreeFailures(target_service) ==
    LET mine == RecordsOf(target_service)
        last3 == {i \in mine : Cardinality({j \in mine : j >= i}) <= circuit_threshold}
    IN IF Cardinality(last3) = circuit_threshold /\ \A i \in last3 : ~action_history[i].success
       THEN last3
       ELSE {}

\* S is queried no later than reset_after after its latest failure record.
WithinResetPeriod(target_service) ==
    \A i \in RecordsOf(target_service) :
        (\A j \in RecordsOf(target_service) : j <= i)
        => now - action_history[i].timestamp <= circuit_reset_after

BlockedByCircuit(target_service) ==
    \A k \in ActionType, r \in ActionRisk :
        check_action_result(k, target_service, r) = BLOCKED_CIRCUIT_OPEN

\* C3 as claimed: after three failed record_action calls on S with no successful one in
\* between, every check on S made within reset_after of the last failure returns
\* BLOCKED_CIRCUIT_OPEN.
C3_Original ==
    \A s \in Services :
        (LastThreeFailures(s) # {} /\ WithinResetPeriod(s)) => BlockedByCircuit(s)

\* C3 amended: the same, provided the counter of S was not reset (by
\* override_circuit_breaker or by the expiry of an earlier open circuit) since the first
\* of the three failures was recorded.
C3_CircuitOpens ==
    \A s \in Services :
        (/\ LastThreeFailures(s) # {}
         /\ \A i \in LastThreeFailures(s) : circuit_reset_at[s] < i
         /\ WithinResetPeriod(s))
        => BlockedByCircuit(s)

\* C3 witness: a check on S has just returned BLOCKED_CIRCUIT_OPEN after three failures.
C3_Witness ==
    /\ ViolationNow(BLOCKED_CIRCUIT_OPEN)
    /\ LastThreeFailures(LastViolation.target_service) # {}
    /\ \A i \in LastThreeFailures(LastViolation.target_service) :
            circuit_reset_at[LastViolation.target_service] < i

\* The freeze appended last is active and no other freeze is.
OnlyLastFreezeActive ==
    /\ change_freezes # <<>>
    /\ \A i \in 1..Len(change_freezes) :
            is_active(change_freezes[i], now) <=> i = Len(change_freezes)

\* With the freeze added last the only active one, a check on a service whose circuit is
\* closed returns BLOCKED_CHANGE_FREEZE exactly for the kinds outside allowed.
FreezeBlocksExactly(allowed) ==
    OnlyLastFreezeActive =>
        \A k \in ActionType, s \in Services, r \in ActionRisk :
            ~is_circuit_open(s) =>
                (check_action_result(k, s, r) = BLOCKED_CHANGE_FREEZE <=> k \notin allowed)

\* C4 as claimed: after add_change_freeze(name, start, end, allowed_actions=A), for every
\* set A of kinds, the empty set included, while that freeze is the only active one and
\* the circuit of S is closed, check_action(K, S, r) returns BLOCKED_CHANGE_FREEZE if and
\* only if K is not in A.
C4_Original ==
    [][\A n \in FreezeNames, w \in FreezeWindows, a \in AllowedArgs \ {NoneArg} :
            AddChangeFreeze(n, w[1], w[2], a) => FreezeBlocksExactly(a)']_vars

\* The conditions of check_action as the specification words them.
CircuitOpenFor(s) ==
    /\ DictGet(circuit_breakers, s, 0) >= 3
    /\ now - DictGet(circuit_last_failure, s, now) <= 30

FreezeExcludes(k) ==
    \E i \in 1..Len(change_freezes) :
        /\ change_freezes[i].start <= now /\ now <= change_freezes[i].end
        /\ \A j \in 1..(i - 1) :
                ~(change_freezes[j].start <= now /\ now <= change_freezes[j].end)
        /\ k \notin change_freezes[i].allowed_actions

RateLimitReached(k, s) ==
    /\ k \in {RESTART_SERVICE, RESTART_INSTANCE, REDEPLOY}
    /\ Cardinality(RecordsWithin(k, s, 60)) >= settings.max_restarts_per_hour

InCooldown(k, s) ==
    /\ k \in {RESTART_SERVICE, RESTART_INSTANCE, REDEPLOY}
    /\ RecordsWithin(k, s, settings.cooldown_minutes) # {}

\* Monday to Friday, 02:00 to 05:00 UTC.
InMaintenanceWindow ==
    \E day \in 0..4 : 1440 * day + 120 <= now % 10080 /\ now % 10080 <= 1440 * day + 300

HighRiskOutsideWindow(r) == r \in {HIGH, CRITICAL} /\ ~InMaintenanceWindow

ExpectedResult(k, s, r) ==
    CASE CircuitOpenFor(s) -> BLOCKED_CIRCUIT_OPEN
      [] ~CircuitOpenFor(s) /\ FreezeExcludes(k) -> BLOCKED_CHANGE_FREEZE
      [] OTHER ->
            IF RateLimitReached(k, s) THEN BLOCKED_RATE_LIMIT
            ELSE IF InCooldown(k, s) THEN BLOCKED_COOLDOWN
            ELSE IF HighRiskOutsideWindow(r) THEN REQUIRES_APPROVAL
            ELSE IF k \in settings.require_approval_for THEN REQUIRES_APPROVAL
            ELSE ALLOWED

\* C5: check_action(K, S, r) returns the outcome of the first condition that holds, in
\* the order circuit open, active freeze excluding K, rate limit, cooldown, high risk
\* outside the maintenance window, approval list, and ALLOWED when none holds.
C5_EvaluationOrder ==
    \A k \in ActionType, s \in Services, r \in ActionRisk :
        check_action_result(k, s, r) = ExpectedResult(k, s, r)

\* C5 witness: a check has just returned BLOCKED_CIRCUIT_OPEN for a (K, S) for which an
\* active freeze, the rate limit and the cooldown hold as well, outside the maintenance
\* window.
C5_Witness ==
    /\ ViolationNow(BLOCKED_CIRCUIT_OPEN)
    /\ FreezeExcludes(LastViolation.action_type)
    /\ RateLimitReached(LastViolation.action_type, LastViolation.target_service)
    /\ InCooldown(LastViolation.action_type, LastViolation.target_service)
    /\ ~InMaintenanceWindow

\* A step that leaves the clock, the history and the freezes alone, as every check_action
\* call does.
QueryStep ==
    now' = now /\ action_history' = action_history /\ change_freezes' = change_freezes

\* The call has appended one entry to the violation log.
ViolationAppended ==
    /\ Len(violations') = Len(violations) + 1
    /\ SubSeq(violations', 1, Len(violations)) = violations

\* C12 as claimed: a check_action call appends a SafetyViolation if and only if the
\* result it returns is neither ALLOWED nor REQUIRES_APPROVAL, and leaves the log
\* unchanged when it returns ALLOWED or REQUIRES_APPROVAL.
C12_Original ==
    [][QueryStep => \A k \in ActionType, s \in Services, r \in ActionRisk :
            CheckAction(k, s, r) =>
                IF check_action_result(k, s, r) \notin {ALLOWED, REQUIRES_APPROVAL}
                THEN ViolationAppended
                ELSE violations' = violations]_vars

\* C12 amended: a check_action call appends a SafetyViolation if and only if it returns
\* a BLOCKED_* result, or returns REQUIRES_APPROVAL for a high or critical risk level
\* outside the maintenance window; the entry carries the kind, the service and the time
\* of the call, and as its check type the result, BLOCKED_HIGH_RISK in the second case.
\* Any other call leaves the log unchanged.
C12_ViolationLogged ==
    [][QueryStep => \A k \in ActionType, s \in Services, r \in ActionRisk :
            CheckAction(k, s, r) =>
                LET result == check_action_result(k, s, r)
                    high == result = REQUIRES_APPROVAL /\ HighRiskOutsideWindow(r)
                IN IF result \notin {ALLOWED, REQUIRES_APPROVAL} \/ high
                   THEN /\ ViolationAppended
                        /\ LastViolation'.check_type =
                                IF high THEN BLOCKED_HIGH_RISK ELSE result
                        /\ LastViolation'.action_type = k
                        /\ LastViolation'.target_service = s
                        /\ LastViolation'.timestamp = now
                   ELSE violations' = violations]_vars

\* C12 witness: a check made at this minute, outside the maintenance window, has logged
\* a high-risk violation that can be overridden.
C12_Witness ==
    /\ ViolationNow(BLOCKED_HIGH_RISK)
    /\ LastViolation.can_override
    /\ ~InMaintenanceWindow

\* None of the conditions check_action tests before the risk level holds.
NoEarlierBlock(k, s) ==
    /\ ~CircuitOpenFor(s)
    /\ ~FreezeExcludes(k)
    /\ ~RateLimitReached(k, s)
    /\ ~InCooldown(k, s)

\* C13: check_action never returns BLOCKED_HIGH_RISK; when no earlier blocking condition
\* holds, a high or critical risk level yields REQUIRES_APPROVAL outside the maintenance
\* window, and inside it ALLOWED unless the kind is in the approval-required list.
C13_HighRiskNeedsApproval ==
    \A k \in ActionType, s \in Services, r \in ActionRisk :
        /\ check_action_result(k, s, r) # BLOCKED_HIGH_RISK
        /\ (r \in {HIGH, CRITICAL} /\ NoEarlierBlock(k, s)) =>
                check_action_result(k, s, r) =
                    IF ~InMaintenanceWindow THEN REQUIRES_APPROVAL
                    ELSE IF k \in settings.require_approval_for THEN REQUIRES_APPROVAL
                    ELSE ALLOWED

\* C13 witness: a high-risk check of a kind outside the approval-required list has just
\* been answered REQUIRES_APPROVAL outside the maintenance window, no earlier condition
\* holding.
C13_Witness ==
    /\ ViolationNow(BLOCKED_HIGH_RISK)
    /\ LastViolation.action_type \notin settings.require_approval_for
    /\ NoEarlierBlock(LastViolation.action_type, LastViolation.target_service)
    /\ check_action_result(LastViolation.action_type, LastViolation.target_service, HIGH)
            = REQUIRES_APPROVAL

\* The position of the latest record of target_service, 0 when it has none.
LatestRecordOf(target_service) ==
    IF RecordsOf(target_service) = {} THEN 0
    ELSE CHOOSE i \in RecordsOf(target_service) :
            \A j \in RecordsOf(target_service) : j <= i

\* C14: from a record_action(_, S, success=true) on, until the next record of S, the
\* consecutive-failure counter of S is 0 and an is-open query for S returns false,
\* whatever failures were recorded before.
C14_SuccessClosesCircuit ==
    \A s \in Services :
        (LatestRecordOf(s) # 0 /\ action_history[LatestRecordOf(s)].success) =>
            /\ DictGet(circuit_breakers, s, 0) = 0
            /\ ~is_circuit_open(s)

\* C14 witness: three failures opened the circuit of S (a check was blocked by it), then
\* a success was recorded, all within the reset period of the last failure.
C14_Witness ==
    \E s \in Services :
        /\ Cardinality(RecordsOf(s)) = circuit_threshold + 1
        /\ \A i \in RecordsOf(s) : action_history[i].success <=> i = LatestRecordOf(s)
        /\ now - circuit_last_failure[s] <= circuit_reset_after
        /\ violations # <<>>
        /\ LastViolation.check_type = BLOCKED_CIRCUIT_OPEN
        /\ LastViolation.target_service = s
        /\ circuit_reset_at[s] = 0
        /\ ~is_circuit_open(s)

\* The circuit of s stands open past its reset period: the counter is at the threshold
\* and the last recorded failure is more than reset_after back.
OpenPastReset(s) ==
    /\ DictGet(circuit_breakers, s, 0) >= 3
    /\ s \in DOMAIN circuit_last_failure
    /\ now - circuit_last_failure[s] > 30

\* C15: a check_action on S whose circuit stands open more than reset_after (30 minutes)
\* past the last recorded failure is not blocked by the circuit and leaves the failure
\* counter of S at 0; and afterwards the circuit of S is open only when its latest three
\* records are failures recorded after that reset.
C15_CircuitAutoReset ==
    [][/\ QueryStep =>
            \A k \in ActionType, s \in Services, r \in ActionRisk :
                (OpenPastReset(s) /\ CheckAction(k, s, r)) =>
                    /\ check_action_result(k, s, r) # BLOCKED_CIRCUIT_OPEN
                    /\ circuit_breakers'[s] = 0
                    /\ ~is_circuit_open(s)'
       /\ \A s \in Services :
            is_circuit_open(s)' =>
                /\ LastThreeFailures(s)' # {}
                /\ \A i \in LastThreeFailures(s)' : circuit_reset_at'[s] < i]_vars

\* C15 witness: three failures opened the circuit, a query made after the reset period
\* reset the counter, and three new failures have opened the circuit again.
C15_Witness ==
    /\ Len(action_history) = 2 * circuit_threshold
    /\ circuit_reset_at["web-1"] = circuit_threshold
    /\ \A i \in 1..Len(action_history) : ~action_history[i].success
    /\ action_history[circuit_threshold + 1].timestamp
            - action_history[circuit_threshold].timestamp > circuit_reset_after
    /\ circuit_breakers["web-1"] = circuit_threshold
    /\ is_circuit_open("web-1")

\* C16: when no record of (S, K) is less than cooldown_minutes old, check_action(K, S, r)
\* does not return BLOCKED_COOLDOWN, so a cooldown block ends once cooldown_minutes
\* have elapsed since the record that caused it.
C16_CooldownEnds ==
    \A k \in ActionType, s \in Services, r \in ActionRisk :
        RecordsWithin(k, s, settings.cooldown_minutes) = {} =>
            check_action_result(k, s, r) # BLOCKED_COOLDOWN

\* C16 witness: a check of (K, S) made exactly cooldown_minutes after the one record of
\* (K, S) has gone past the cooldown test, up to the risk level.
C16_Witness ==
    /\ ViolationNow(BLOCKED_HIGH_RISK)
    /\ LastViolation.action_type \in RateLimitedKinds
    /\ \E i \in 1..Len(action_history) :
            /\ action_history[i].action_type = LastViolation.action_type
            /\ action_history[i].target_service = LastViolation.target_service
            /\ now - action_history[i].timestamp = settings.cooldown_minutes


\* The failures of target_service recorded one after the other, with no success of it in
\* between, since its counter was last reset: how many.
FailuresSinceReset(target_service) ==
    Cardinality({i \in RecordsOf(target_service) :
        /\ i > circuit_reset_at[target_service]
        /\ \A j \in RecordsOf(target_service) : j >= i => ~action_history[j].success})

\* No check on target_service is answered BLOCKED_CIRCUIT_OPEN.
NotBlockedByCircuit(target_service) ==
    \A k \in ActionType, r \in ActionRisk :
        check_action_result(k, target_service, r) # BLOCKED_CIRCUIT_OPEN

\* C29: override_circuit_breaker(S) leaves the failure counter of S at 0 and its circuit
\* closed (no check on S is answered BLOCKED_CIRCUIT_OPEN), and for a service without a
\* breaker entry it changes nothing; from then on the counter counts the failures
\* recorded for S in a row, so the circuit stays closed until three further consecutive
\* failures are recorded.
C29_OverrideClosesCircuit ==
    /\ [][\A s \in Services :
            (now' = now /\ action_history' = action_history /\ violations' = violations
             /\ OverrideCircuitBreaker(s)) =>
                IF s \in DOMAIN circuit_breakers
                THEN /\ circuit_breakers'[s] = 0
                     /\ ~is_circuit_open(s)'
                     /\ NotBlockedByCircuit(s)'
                     /\ \A o \in DOMAIN circuit_breakers \ {s} :
                            circuit_breakers'[o] = circuit_breakers[o]
                ELSE /\ circuit_breakers' = circuit_breakers
                     /\ circuit_last_failure' = circuit_last_failure]_vars
    /\ [](\A s \in Services :
            /\ DictGet(circuit_breakers, s, 0) = FailuresSinceReset(s)
            /\ FailuresSinceReset(s) < circuit_threshold => NotBlockedByCircuit(s))

\* C29 witness: three failures opened the circuit of S and a check was blocked by it; the
\* circuit was overridden and one more failure recorded, all at the same minute: the
\* counter is 1 and the circuit closed.
C29_Witness ==
    \E s \in Services :
        /\ Cardinality(RecordsOf(s)) = circuit_threshold + 1
        /\ \A i \in RecordsOf(s) :
                ~action_history[i].success /\ action_history[i].timestamp = now
        /\ violations # <<>>
        /\ LastViolation.check_type = BLOCKED_CIRCUIT_OPEN
        /\ LastViolation.target_service = s
        /\ circuit_reset_at[s] = circuit_threshold
        /\ circuit_breakers[s] = 1
        /\ NotBlockedByCircuit(s)

\* What the guard holds and answers for target_service: whether it has a counter, the
\* counter, and the answer to every check.
GuardView(target_service) ==
    [present |-> target_service \in DOMAIN circuit_breakers,
     failures |-> DictGet(circuit_breakers, target_service, 0),
     answers |-> [k \in ActionType, r \in ActionRisk |->
                    check_action_result(k, target_service, r)]]

\* C30: for two distinct services S1 and S2, neither record_action(_, S1, _) nor
\* override_circuit_breaker(S1) changes the failure counter of S2 or the answer of
\* check_action(K, S2, r) for any kind K and risk r (the history being far from its cap of
\* 10,000 entries).
C30_PerServiceIsolation ==
    [][(/\ now' = now
        /\ violations' = violations
        /\ action_history' # action_history \/ circuit_breakers' # circuit_breakers) =>
        \A s1 \in Services : \A s2 \in Services \ {s1} :
            (\/ \E k \in ActionType, ok \in BOOLEAN : RecordAction(k, s1, ok)
             \/ OverrideCircuitBreaker(s1)) =>
                GuardView(s2)' = GuardView(s2)]_vars

\* C30 witness: the circuit of S2 is open after three failures; then a failed restart of S1
\* was recorded and the circuit of S1 overridden; S2 still has its three failures and
\* checks on it are still blocked.
C30_Witness ==
    \E s1 \in Services : \E s2 \in Services \ {s1} :
        /\ Len(action_history) = circuit_threshold + 1
        /\ \A i \in 1..circuit_threshold :
                action_history[i].target_service = s2 /\ ~action_history[i].success
        /\ action_history[circuit_threshold + 1].target_service = s1
        /\ ~action_history[circuit_threshold + 1].success
        /\ circuit_reset_at[s1] = circuit_threshold + 1
        /\ circuit_breakers[s1] = 0
        /\ circuit_breakers[s2] = circuit_threshold
        /\ BlockedByCircuit(s2)

\* The results of check_action that block.
BlockedResults ==
    {BLOCKED_RATE_LIMIT, BLOCKED_COOLDOWN, BLOCKED_CHANGE_FREEZE, BLOCKED_HIGH_RISK,
     BLOCKED_CIRCUIT_OPEN}

\* max(60, cooldown_minutes, 30): the longest of the hour of the rate limit, the cooldown
\* and the reset period of the circuit breaker.
LongestBlock ==
    LET a == IF HourMinutes >= settings.cooldown_minutes
             THEN HourMinutes ELSE settings.cooldown_minutes
    IN IF a >= circuit_reset_after THEN a ELSE circuit_reset_after

\* target_service has records, and the last one is at least LongestBlock minutes old.
WaitedOut(target_service) ==
    /\ RecordsOf(target_service) # {}
    /\ \A i \in RecordsOf(target_service) :
            now - action_history[i].timestamp >= LongestBlock

\* No check of a rate-limited kind on target_service is answered with a BLOCKED_* result.
Unblocked(target_service) ==
    \A k \in RateLimitedKinds, r \in ActionRisk :
        check_action_result(k, target_service, r) \notin BlockedResults

\* C33: blocks are temporary. With no freeze active, once max(60, cooldown_minutes, 30)
\* minutes have passed since the last record of S, check_action(K, S, r) returns no
\* BLOCKED_* result for any rate-limited K; and as the clock advances and no further
\* action is recorded, from some time on no such check is blocked.
C33_BlocksAreTemporary ==
    /\ [](\A s \in Services :
            (get_active_freeze = 0 /\ WaitedOut(s)) => Unblocked(s))
    /\ <>[](\A s \in Services : Unblocked(s))

\* C33 witness: three failures in a row opened the circuit of web-1 and as many restarts
\* as an hour allows were recorded; the last record is now LongestBlock minutes old.
C33_Witness ==
    /\ WaitedOut("web-1")
    /\ DictGet(circuit_breakers, "web-1", 0) >= circuit_threshold
    /\ Cardinality({i \in RecordsOf("web-1") :
            action_history[i].action_type = RESTART_SERVICE})
            >= settings.max_restarts_per_hour
    /\ \E i \in RecordsOf("web-1") : now - action_history[i].timestamp = LongestBlock

\* The number of records of (action_type, target_service) in the guard's history with a
\* timestamp in [now - minutes, now], the interval ActionHistory.count_actions counts over.
CountClosed(action_type, target_service, minutes) ==
    Cardinality({i \in 1..Len(action_history) :
        /\ ~(action_history[i].timestamp < now - minutes)
        /\ action_history[i].target_service = target_service
        /\ action_history[i].action_type = action_type})

\* C40 as stated: the guard's window queries count over the closed interval
\* [now - window, now], as ActionHistory.count_actions does: the rate-limit check fails
\* exactly when max_restarts_per_hour records lie in [now - 1 h, now], and the cooldown
\* check exactly when a record lies in [now - cooldown_minutes, now], a record exactly
\* one hour (resp. cooldown_minutes) old included.
C40_Original ==
    \A k \in RateLimitedKinds, s \in Services :
        /\ check_rate_limit(k, s) <=>
                CountClosed(k, s, HourMinutes) < settings.max_restarts_per_hour
        /\ check_cooldown(k, s) <=> CountClosed(k, s, settings.cooldown_minutes) = 0

(***************************************************************************)
(* Properties of the executor                                              *)
(***************************************************************************)
\* The positions of the entries of t's action_results with status FAILED.
FailedAt(t) ==
    {i \in 1..Len(tasks[t].result.action_results) :
        tasks[t].result.action_results[i].status = FAILED}

\* The position of the first FAILED entry.
FirstFailed(t) == CHOOSE i \in FailedAt(t) : \A j \in FailedAt(t) : i <= j

\* C9: in execute_plan with stop_on_failure=true, once the action at position i is the
\* first whose result is FAILED, action_results has exactly i entries, no hook and no
\* Cloud Provider API call is ever made for a position beyond i, and the call returns
\* with overall_status FAILED.
C9_StopOnFailure ==
    \A t \in Tasks :
        (tasks[t].stop_on_failure /\ FailedAt(t) # {}) =>
            /\ Len(tasks[t].result.action_results) = FirstFailed(t)
            /\ \A h \in 1..Len(hook_calls) :
                    hook_calls[h].task = t => hook_calls[h].position <= FirstFailed(t)
            /\ \A c \in 1..Len(api_calls) :
                    api_calls[c].task = t => api_calls[c].position <= FirstFailed(t)
            /\ tasks[t].pc = "done" => tasks[t].result.overall_status = FAILED

\* C9 witness: a three-action plan run with hooks and stop_on_failure=true has returned;
\* its second action was the first to fail.
C9_Witness ==
    \E t \in Tasks :
        /\ tasks[t].pc = "done"
        /\ tasks[t].stop_on_failure
        /\ callbacks = "stand-in"
        /\ Len(tasks[t].plan.actions) = 3
        /\ FailedAt(t) # {}
        /\ FirstFailed(t) = 2

\* C10: with dry_run=true the per-action execution returns status SUCCESS for an action
\* of any kind, and the run makes no call to the Cloud Provider API.
C10_DryRun ==
    \A t \in Tasks :
        tasks[t].dry_run =>
            /\ tasks[t].pc = "post_hook" =>
                    tasks[t].result.action_results[tasks[t].inner].status = SUCCESS
            /\ \A c \in 1..Len(api_calls) : api_calls[c].task # t

\* C10 witness: a dry run has just executed a NO_ACTION action, and another state an
\* action that carries an instance_id.
C10_Witness ==
    \E t \in Tasks :
        /\ tasks[t].dry_run
        /\ tasks[t].pc = "post_hook"
        /\ CurrentAction(t).action_type \in {NO_ACTION, RESTART_INSTANCE}
        /\ "instance_id" \in DOMAIN CurrentAction(t).parameters


(***************************************************************************)
(* Properties of the pipeline                                              *)
(***************************************************************************)
\* The action a call of the API log was made for.
ActionOf(c) == tasks[api_calls[c].task].plan.actions[api_calls[c].position]

\* C6: no action with requires_approval=true is handed to the Cloud Provider API
\* (reboot_instance, start_amplify_deployment) while its plan has approved=false, neither
\* by execute_plan nor by the analysis pipeline, for the plans of the recommender.
C6_NoUnapprovedDispatch ==
    \A c \in 1..Len(api_calls) :
        ~(/\ api_calls[c].op \in {"reboot_instance", "start_amplify_deployment"}
          /\ ActionOf(c).requires_approval
          /\ ~tasks[api_calls[c].task].plan.approved)

\* C6 witness: inside the maintenance window the pipeline has run _execute_action on a
\* REDEPLOY action with requires_approval=true of a plan that was never approved.
C6_Witness ==
    \E t \in Tasks :
        /\ tasks[t].caller = "pipeline"
        /\ tasks[t].pc = "post_hook"
        /\ CurrentAction(t).action_type = REDEPLOY
        /\ CurrentAction(t).requires_approval
        /\ ~tasks[t].plan.approved
        /\ is_maintenance_window

\* The calls of the API log that restart or redeploy.
Invocations ==
    {c \in 1..Len(api_calls) :
        api_calls[c].op \in {"reboot_instance", "start_amplify_deployment"}}

\* Task t is inside the dispatch of an action of kind k on service s: _execute_action has
\* been entered for it and record_action has not yet recorded it.
Dispatching(t, k, s) ==
    /\ tasks[t].pc \in {"execute_action", "api_wait", "recovery_wait", "recovery_sleep",
                        "post_hook"}
    /\ CurrentAction(t).action_type = k
    /\ CurrentAction(t).target_service = s

Dispatched(t, k, s) ==
    \E i \in 1..Len(tasks[t].result.action_results) :
        /\ tasks[t].result.action_results[i].action_type = k
        /\ tasks[t].result.action_results[i].target_service = s
        /\ tasks[t].result.action_results[i].status = FAILED

C8_Original ==
    \A t \in Tasks : tasks[t].caller = "pipeline" => tasks[t].calls <= 1

(***************************************************************************)
(* Properties of the hooks of MonitorApp                                   *)
(***************************************************************************)
\* The record record_action appends for the result at position i of task t.
RecordOf(t, i) ==
    [action_type |-> tasks[t].plan.actions[i].action_type,
     target_service |-> tasks[t].plan.actions[i].target_service]

\* The positions of the plan whose dispatch and post hook are both over.
Completed(t) ==
    IF tasks[t].pc \in {"api_wait", "recovery_wait", "recovery_sleep", "post_hook"}
    THEN SubSeq(tasks[t].dispatched, 1, Len(tasks[t].dispatched) - 1)
    ELSE tasks[t].dispatched

\* The positions of the plan whose result was appended by the pre-hook branch.
SkippedByPreHook(t) ==
    {i \in 1..Len(tasks[t].result.action_results) :
        \A j \in 1..Len(tasks[t].dispatched) : tasks[t].dispatched[j] # i}

\* C11: with the hooks of MonitorApp, the records of the guard's history are, one for
\* one and in order, the actions execute_plan has handed to _execute_action and whose
\* post hook has run; an action the pre-execution check skipped leaves no record.
C11_RecordedOncePerDispatch ==
    LET done == Completed(1)
    IN /\ Len(action_history) = Len(done)
       /\ \A j \in 1..Len(done) :
            /\ action_history[j].action_type = RecordOf(1, done[j]).action_type
            /\ action_history[j].target_service = RecordOf(1, done[j]).target_service
            /\ action_history[j].success =
                    (tasks[1].result.action_results[done[j]].status = SUCCESS)
            /\ \A k \in 1..Len(done) : done[k] = done[j] => k = j

\* A finished plan of three actions: the first dispatched and recorded, the second
\* skipped by the pre-execution check, the third dispatched and recorded.
C11_Witness ==
    /\ tasks[1].pc = "done"
    /\ tasks[1].dispatched = <<1, 3>>
    /\ SkippedByPreHook(1) = {2}
    /\ tasks[1].result.action_results[2].status = SKIPPED
    /\ Len(action_history) = 2
    /\ \E c \in 1..Len(api_calls) : api_calls[c].position = 3

(***************************************************************************)
(* Properties of the loop of execute_plan and of its hooks                 *)
(***************************************************************************)
\* The positions in the hook log of the calls of task t to the hook given.
HookCalls(t, hook) ==
    {h \in 1..Len(hook_calls) : hook_calls[h].task = t /\ hook_calls[h].hook = hook}

\* The positions in the API log of the calls made for position i of task t's plan.
ApiCallsAt(t, i) ==
    {c \in 1..Len(api_calls) : api_calls[c].task = t /\ api_calls[c].position = i}

\* Task t is inside _execute_action for the position it is at.
InDispatch(t) ==
    tasks[t].pc \in {"execute_action", "api_wait", "recovery_wait", "recovery_sleep"}

\* The loop of task t is over.
LoopOver(t) == tasks[t].pc \in {"finish", "done", "record_execution"}

\* C17: within one execute_plan call the entries of action_results follow the plan
\* position by position, and everything done for a position (pre hook, dispatch and its
\* API calls, post hook) is over before anything is done for the next: the hook log and
\* the API log are ordered by position, pre before post, no call is in flight unless the
\* task is in the dispatch of the position it is at, and nothing is logged ahead of it.
C17_SequentialInOrder ==
    \A t \in Tasks :
        LET results == tasks[t].result.action_results
            mine == {h \in 1..Len(hook_calls) : hook_calls[h].task = t}
        IN /\ Len(results) <= Len(tasks[t].plan.actions)
           /\ \A i \in 1..Len(results) :
                /\ results[i].action_type = tasks[t].plan.actions[i].action_type
                /\ results[i].target_service = tasks[t].plan.actions[i].target_service
           /\ \A h1 \in mine, h2 \in mine :
                h1 < h2 =>
                    \/ hook_calls[h1].position < hook_calls[h2].position
                    \/ /\ hook_calls[h1].position = hook_calls[h2].position
                       /\ hook_calls[h1].hook = "pre" /\ hook_calls[h2].hook = "post"
           /\ \A c1 \in 1..Len(api_calls), c2 \in 1..Len(api_calls) :
                (c1 < c2 /\ api_calls[c1].task = t /\ api_calls[c2].task = t) =>
                    /\ api_calls[c1].position <= api_calls[c2].position
                    /\ api_calls[c1].completed # -1
           /\ \A h \in mine : hook_calls[h].position <= tasks[t].inner
           /\ \A c \in 1..Len(api_calls) :
                api_calls[c].task = t =>
                    /\ api_calls[c].position <= tasks[t].inner
                    /\ api_calls[c].completed = -1 =>
                            /\ tasks[t].pc \in {"api_wait", "recovery_wait"}
                            /\ api_calls[c].position = tasks[t].inner
           /\ tasks[t].pc = "pre_hook" =>
                /\ Len(results) = tasks[t].inner - 1
                /\ ApiCallsAt(t, tasks[t].inner) = {}
                /\ \A h \in mine : hook_calls[h].position < tasks[t].inner
           /\ InDispatch(t) =>
                /\ Len(results) = tasks[t].inner - 1
                /\ \A h \in HookCalls(t, "post") : hook_calls[h].position < tasks[t].inner
           /\ tasks[t].pc = "post_hook" => Len(results) = tasks[t].inner

\* C17 witness: a three-action plan run with hooks has returned; its first and third
\* actions called the API, and each of the three had its pre hook and its post hook.
C17_Witness ==
    /\ tasks[1].pc = "done"
    /\ Len(tasks[1].result.action_results) = 3
    /\ Len(hook_calls) = 6
    /\ ApiCallsAt(1, 1) # {}
    /\ ApiCallsAt(1, 2) = {}
    /\ ApiCallsAt(1, 3) # {}
    /\ tasks[1].plan.actions[1] # tasks[1].plan.actions[2]

\* The positions of task t's plan for which the pre hook answered as given.
PreHookAnswered(t, outcome) ==
    {hook_calls[h].position : h \in {g \in HookCalls(t, "pre") :
                                        hook_calls[g].outcome = outcome}}

\* C18: when the pre hook returns false for the action at position p, execute_plan
\* records SKIPPED for it, makes no Cloud Provider API call for it and does not hand it
\* to _execute_action, and goes on to the next action: the loop ends at p only when p is
\* the last position. overall_status is FAILED only when some entry is FAILED.
C18_SkippedByPreHook ==
    \A t \in Tasks :
        /\ \A p \in PreHookAnswered(t, "false") :
                /\ Len(tasks[t].result.action_results) >= p
                /\ tasks[t].result.action_results[p].status = SKIPPED
                /\ ApiCallsAt(t, p) = {}
                /\ \A j \in 1..Len(tasks[t].dispatched) : tasks[t].dispatched[j] # p
                /\ tasks[t].inner > p
                /\ (LoopOver(t) /\ Len(tasks[t].result.action_results) = p) =>
                        p = Len(tasks[t].plan.actions)
        /\ tasks[t].result.overall_status = FAILED => FailedAt(t) # {}

\* C18 witness: a plan of three actions that call the API, run with stop_on_failure=true,
\* has returned SUCCESS; the pre hook returned false for the first two, the third was
\* executed.
C18_Witness ==
    /\ tasks[1].pc = "done"
    /\ tasks[1].stop_on_failure
    /\ ~tasks[1].dry_run
    /\ PreHookAnswered(1, "false") = {1, 2}
    /\ ApiCallsAt(1, 3) # {}
    /\ tasks[1].plan.actions[1].action_type = RESTART_SERVICE
    /\ tasks[1].result.overall_status = SUCCESS

\* The number of calls of the post hook for position p of task t's plan.
PostHookCount(t, p) ==
    Cardinality({h \in HookCalls(t, "post") : hook_calls[h].position = p})

\* The post hook of position p of task t's plan is behind: p was handed to
\* _execute_action and the loop has gone past its post hook.
PastPostHook(t, p) ==
    /\ \E j \in 1..Len(tasks[t].dispatched) : tasks[t].dispatched[j] = p
    /\ tasks[t].inner > p \/ LoopOver(t)

\* C19 as claimed: an executor built with a post hook calls it exactly once for every
\* entry of action_results, whatever the status of the entry.
C19_Original ==
    \A t \in Tasks :
        (callbacks = "stand-in" /\ LoopOver(t)) =>
            \A p \in 1..Len(tasks[t].result.action_results) : PostHookCount(t, p) = 1

\* C19 amended: an executor built with a post hook calls it exactly once for every
\* action handed to _execute_action, whatever the status of its result, and never for an
\* action whose SKIPPED entry comes from the pre hook returning false.
C19_PostHookPerDispatch ==
    \A t \in Tasks :
        callbacks = "stand-in" =>
            \A p \in 1..Len(tasks[t].plan.actions) :
                PostHookCount(t, p) = IF PastPostHook(t, p) THEN 1 ELSE 0

\* C19 witness: a plan has returned whose three entries are SKIPPED by the pre hook,
\* FAILED and SUCCESS; the post hook was called for the second and the third.
C19_Witness ==
    /\ tasks[1].pc = "done"
    /\ callbacks = "stand-in"
    /\ PreHookAnswered(1, "false") = {1}
    /\ Len(tasks[1].result.action_results) = 3
    /\ tasks[1].result.action_results[2].status = FAILED
    /\ tasks[1].result.action_results[3].status = SUCCESS
    /\ PostHookCount(1, 1) = 0
    /\ PostHookCount(1, 2) = 1
    /\ PostHookCount(1, 3) = 1

\* The positions of task t's plan for which the post hook raised.
PostHookRaised(t) ==
    {hook_calls[h].position : h \in {g \in HookCalls(t, "post") :
                                        hook_calls[g].outcome = "raise"}}

\* C20: an exception of the pre hook or of the post hook does not leave execute_plan. The
\* action whose pre hook raised is handed to _execute_action; after a post hook that
\* raised the loop goes on as after one that returned, ending at that position only when
\* it is the last or when its result is FAILED and stop_on_failure is set; the call can
\* always take its next step, and it returns with overall_status SUCCESS or FAILED and
\* plan.executed set.
C20_HookExceptionsCaught ==
    \A t \in Tasks :
        /\ \A p \in PreHookAnswered(t, "raise") :
                \/ tasks[t].inner = p /\ tasks[t].pc = "execute_action"
                \/ \E j \in 1..Len(tasks[t].dispatched) : tasks[t].dispatched[j] = p
        /\ \A p \in PostHookRaised(t) :
                /\ tasks[t].inner > p \/ LoopOver(t)
                /\ (LoopOver(t) /\ Len(tasks[t].result.action_results) = p) =>
                        \/ p = Len(tasks[t].plan.actions)
                        \/ /\ tasks[t].result.action_results[p].status = FAILED
                           /\ tasks[t].stop_on_failure
        /\ tasks[t].pc \notin {"idle", "done"} => ENABLED NextExec
        /\ tasks[t].pc = "done" =>
                /\ tasks[t].result.overall_status \in {SUCCESS, FAILED}
                /\ tasks[t].plan.executed
                /\ tasks[t].plan.execution_result = tasks[t].result.overall_status

\* C20 witness: a plan of three actions has returned; the pre hook raised for the first
\* action and the post hook raised for the first and the second, and all three actions
\* were handed to _execute_action.
C20_Witness ==
    /\ tasks[1].pc = "done"
    /\ 1 \in PreHookAnswered(1, "raise")
    /\ PostHookRaised(1) = {1, 2}
    /\ tasks[1].dispatched = <<1, 2, 3>>
    /\ tasks[1].plan.executed

(***************************************************************************)
(* Properties of the result of execute_plan                                *)
(***************************************************************************)
\* C21: the overall_status execute_plan returns is FAILED when at least one entry of
\* action_results is FAILED and SUCCESS otherwise, never another status, with and
\* without stop_on_failure; the entry it appends to its history says the same.
C21_OverallStatus ==
    /\ \A t \in Tasks :
            tasks[t].pc = "done" =>
                tasks[t].result.overall_status =
                    IF FailedAt(t) # {} THEN FAILED ELSE SUCCESS
    /\ \A e \in 1..Len(execution_history) :
            execution_history[e].overall_status =
                IF \E i \in 1..Len(execution_history[e].action_results) :
                        execution_history[e].action_results[i].status = FAILED
                THEN FAILED ELSE SUCCESS

\* C21 witness: a plan run with stop_on_failure=false has returned FAILED; its first
\* action failed, the two after it succeeded.
C21_Witness ==
    /\ tasks[1].pc = "done"
    /\ ~tasks[1].stop_on_failure
    /\ Len(tasks[1].result.action_results) = 3
    /\ FailedAt(1) = {1}
    /\ tasks[1].result.action_results[2].status = SUCCESS
    /\ tasks[1].result.action_results[3].status = SUCCESS
    /\ tasks[1].result.overall_status = FAILED

\* The three ways a call of the Cloud API reports failure.
FailureSignals == {"false", "none", "raise"}

\* The kinds of action that call the Cloud API.
ApiKinds == {RESTART_SERVICE, RESTART_INSTANCE, REDEPLOY}

\* C22: when the API call of a RESTART_SERVICE, RESTART_INSTANCE or REDEPLOY answers False
\* or None or raises, the dispatch returns an entry with status FAILED for that action
\* (nothing escapes: the task goes on to the post hook); and a plan run with
\* stop_on_failure=false ends with one entry per action of the plan.
C22_ApiFailureIsFailed ==
    /\ [][\A t \in Tasks, outcome \in FailureSignals :
            (tasks[t].pc = "api_wait" /\ ApiReturn(t, outcome)) =>
                /\ CurrentAction(t).action_type \in ApiKinds
                /\ Len(tasks'[t].result.action_results) =
                        Len(tasks[t].result.action_results) + 1
                /\ tasks'[t].result.action_results[Len(tasks'[t].result.action_results)]
                        .status = FAILED
                /\ tasks'[t].result.action_results[Len(tasks'[t].result.action_results)]
                        .action_type = CurrentAction(t).action_type
                /\ tasks'[t].pc = "post_hook"]_vars
    /\ [](\A t \in Tasks :
            (tasks[t].pc = "done" /\ ~tasks[t].stop_on_failure) =>
                Len(tasks[t].result.action_results) = Len(tasks[t].plan.actions))

\* C22 witness: a plan of two actions run with dry_run=false and stop_on_failure=false
\* has returned; the API was called for both and both entries are FAILED.
C22_Witness ==
    /\ tasks[1].pc = "done"
    /\ ~tasks[1].stop_on_failure
    /\ ~tasks[1].dry_run
    /\ Len(tasks[1].plan.actions) = 2
    /\ tasks[1].plan.actions[1].action_type = RESTART_INSTANCE
    /\ tasks[1].plan.actions[2].action_type = REDEPLOY
    /\ FailedAt(1) = {1, 2}
    /\ ApiCallsAt(1, 1) # {}
    /\ ApiCallsAt(1, 2) # {}

\* The entry of the history made from what task t was returned.
ReturnedEntry(t) ==
    [task |-> t, call |-> tasks[t].calls,
     overall_status |-> tasks[t].result.overall_status,
     action_results |-> tasks[t].result.action_results]

\* C23: when execute_plan has returned, plan.executed is true, plan.execution_result is
\* the overall_status returned, the result returned is the newest entry of the execution
\* history, and the history holds at most 100 entries, the latest calls in their order
\* (the oldest entry is the one evicted).
C23_PlanMarkedAndHistoryCapped ==
    /\ Len(execution_history) <= 100
    /\ \A i \in 1..Len(execution_history) :
            execution_history[i].call =
                execution_history[Len(execution_history)].call
                    - Len(execution_history) + i
    /\ \A t \in Tasks :
            tasks[t].pc = "done" =>
                /\ tasks[t].plan.executed
                /\ tasks[t].plan.execution_result = tasks[t].result.overall_status
                /\ tasks[t].plan.execution_result \in {"success", "failed"}
                /\ execution_history # <<>>
                /\ execution_history[Len(execution_history)] = ReturnedEntry(t)
                /\ Len(execution_history) =
                        IF tasks[t].calls < 100 THEN tasks[t].calls ELSE 100

\* C23 witness: the 102nd call of execute_plan has returned; the history holds 100
\* entries, the first of them the result of the third call.
C23_Witness ==
    /\ tasks[1].pc = "done"
    /\ tasks[1].calls = 102
    /\ Len(execution_history) = 100
    /\ execution_history[1].call = 3
    /\ execution_history[100] = ReturnedEntry(1)

(***************************************************************************)
(* Properties of the recommender                                           *)
(***************************************************************************)
\* A step in which a caller was handed a plan by the recommender.
PlanReturned == tasks[1].pc = "idle" /\ tasks'[1].pc = "planned"

\* The kinds of the actions of task t's plan, in order.
PlanKinds(t) ==
    [i \in 1..Len(tasks[t].plan.actions) |-> tasks[t].plan.actions[i].action_type]

\* An action added by the recommender on top of the primary one.
IsAddedAction(action, kind, service) ==
    action = ActionRecommendation(kind, service, LOW, 100, FALSE, EmptyDict)

\* C24: the plan recommend_for_analysis returns holds a NOTIFY first exactly when the
\* service health given is UNHEALTHY, then the one primary action (built from the
\* analysis), then an ESCALATE last exactly when the severity is critical and the primary
\* kind is not ESCALATE; nothing else.
C24_PlanShape ==
    [][PlanReturned =>
        \A a \in RecommenderAnalyses, h \in HealthStates \cup {NoneVal} :
            RecommendForAnalysis(1, a, h) =>
                LET acts == tasks'[1].plan.actions
                    lead == IF h = UNHEALTHY THEN 1 ELSE 0
                    kind == acts[lead + 1].action_type
                    trail == IF a.severity = "critical" /\ kind # ESCALATE THEN 1 ELSE 0
                IN /\ Len(acts) = lead + 1 + trail
                   /\ lead = 1 => IsAddedAction(acts[1], NOTIFY, a.source_service)
                   /\ kind \in {map_recommended_action(a.recommended_action),
                                NOTIFY, ESCALATE}
                   /\ acts[lead + 1].target_service = a.source_service
                   /\ acts[lead + 1].confidence = a.confidence
                   /\ acts[lead + 1].parameters = analysis_parameters
                   /\ trail = 1 => IsAddedAction(acts[Len(acts)], ESCALATE,
                                                 a.source_service)]_vars

\* C24 witness: a plan returned for a critical analysis of an unhealthy service: NOTIFY,
\* the restart the analysis recommended, ESCALATE.
C24_Witness ==
    /\ tasks[1].pc = "planned"
    /\ PlanKinds(1) = <<NOTIFY, RESTART_SERVICE, ESCALATE>>
    /\ tasks[1].plan.actions[2].parameters = analysis_parameters

\* The entries of the recommender's history for a service and a kind no older than the
\* minutes given.
RecentlyRecorded(service, kind, minutes) ==
    {i \in 1..Len(rec_history) :
        /\ rec_history[i].target_service = service
        /\ rec_history[i].action_type = kind
        /\ rec_history[i].timestamp >= now - minutes}

\* The kind mapped from the analysis is disallowed: by a configuration flag, or by the
\* recommender's own count of restarts in the last hour or in the cooldown period.
MappedKindDisallowed(a) ==
    LET mapped == map_recommended_action(a.recommended_action)
    IN \/ mapped = RESTART_SERVICE /\ ~settings.allow_restart
       \/ mapped = REDEPLOY /\ ~settings.allow_redeploy
       \/ /\ mapped \in {RESTART_SERVICE, RESTART_INSTANCE}
          /\ \/ Cardinality(RecentlyRecorded(a.source_service, mapped, HourMinutes))
                    >= settings.max_restarts_per_hour
             \/ RecentlyRecorded(a.source_service, mapped, settings.cooldown_minutes)
                    # {}

\* The primary action of a plan of recommend_for_analysis: the one built from the analysis.
PrimaryOf(actions) ==
    actions[CHOOSE i \in 1..Len(actions) : actions[i].parameters = analysis_parameters]

\* C25: when the kind mapped from the analysis is disallowed the primary action of the plan
\* is ESCALATE for a critical analysis and NOTIFY otherwise; with allow_restart=false, a
\* recommended restart_service, confidence 0.9, severity error and a service not unhealthy
\* the plan is one NOTIFY that needs no approval, and execute_plan with dry_run=false
\* gives that action the status SUCCESS.
C25_FallbackWhenDisallowed ==
    /\ [][PlanReturned =>
            \A a \in RecommenderAnalyses, h \in HealthStates \cup {NoneVal} :
                RecommendForAnalysis(1, a, h) =>
                    /\ MappedKindDisallowed(a) =>
                            PrimaryOf(tasks'[1].plan.actions).action_type =
                                IF a.severity = "critical" THEN ESCALATE ELSE NOTIFY
                    /\ ( /\ ~settings.allow_restart
                         /\ a.recommended_action = "restart_service"
                         /\ a.severity = "error"
                         /\ h # UNHEALTHY ) =>
                            /\ PlanKinds(1)' = <<NOTIFY>>
                            /\ ~tasks'[1].plan.actions[1].requires_approval
                            /\ ~plan_requires_approval(tasks'[1].plan.actions)]_vars
    /\ [](( /\ tasks[1].pc = "done"
            /\ tasks[1].analysis # NoAnalysis
            /\ ~tasks[1].dry_run
            /\ PlanKinds(1) = <<NOTIFY>> ) =>
                /\ Len(tasks[1].result.action_results) = 1
                /\ tasks[1].result.action_results[1].action_type = NOTIFY
                /\ tasks[1].result.action_results[1].status = SUCCESS)

\* C25 witness: with allow_restart=false a plan returned for an analysis of severity error
\* that recommended restart_service and confidence 0.9 has been executed with
\* dry_run=false: one NOTIFY, no approval needed, status SUCCESS.
C25_Witness ==
    /\ tasks[1].pc = "done"
    /\ ~settings.allow_restart
    /\ tasks[1].analysis.recommended_action = "restart_service"
    /\ tasks[1].analysis.severity = "error"
    /\ tasks[1].analysis.confidence = 90
    /\ ~tasks[1].dry_run
    /\ PlanKinds(1) = <<NOTIFY>>
    /\ ~plan_requires_approval(tasks[1].plan.actions)
    /\ tasks[1].result.action_results[1].status = SUCCESS

\* A restart of the service is disallowed: by allow_restart, or by the recommender's count
\* of its restarts in the last hour or in the cooldown period.
RestartDisallowed(service) ==
    \/ ~settings.allow_restart
    \/ Cardinality(RecentlyRecorded(service, RESTART_SERVICE, HourMinutes))
            >= settings.max_restarts_per_hour
    \/ RecentlyRecorded(service, RESTART_SERVICE, settings.cooldown_minutes) # {}

\* The kinds of the plan for a health state and the state before it.
HealthChangeKinds(service, state, previous_state) ==
    IF state = UNHEALTHY
    THEN <<IF RestartDisallowed(service) THEN ESCALATE ELSE RESTART_SERVICE, NOTIFY>>
    ELSE IF state = DEGRADED THEN <<NOTIFY>>
    ELSE IF state = HEALTHY /\ previous_state \in {UNHEALTHY, DEGRADED} THEN <<NOTIFY>>
    ELSE <<NO_ACTION>>

\* C26: the plan recommend_for_health_change returns is, for an UNHEALTHY service, a
\* RESTART_SERVICE (an ESCALATE when a restart is disallowed) and then a NOTIFY; for a
\* DEGRADED one a NOTIFY; for a HEALTHY one that was UNHEALTHY or DEGRADED a NOTIFY; for
\* every other pair of states a NO_ACTION; always for the service given.  From UNHEALTHY
\* to HEALTHY the plan is one NOTIFY and holds no restart.
C26_HealthChangePlan ==
    [][PlanReturned =>
        \A state \in HealthStates, previous_state \in HealthStates \cup {NoneVal} :
            RecommendForHealthChange(1, "web-1", state, previous_state) =>
                /\ PlanKinds(1)' = HealthChangeKinds("web-1", state, previous_state)
                /\ \A i \in 1..Len(tasks'[1].plan.actions) :
                        tasks'[1].plan.actions[i].target_service = "web-1"
                /\ (state = HEALTHY /\ previous_state = UNHEALTHY) =>
                        PlanKinds(1)' = <<NOTIFY>>]_vars

\* C26 witness: the plan returned for a service gone from UNHEALTHY to HEALTHY is one
\* NOTIFY.
C26_Witness ==
    /\ tasks[1].pc = "planned"
    /\ tasks[1].health_change = [state |-> HEALTHY, previous_state |-> UNHEALTHY]
    /\ PlanKinds(1) = <<NOTIFY>>

\* C27: with an approval callback configured, a call of recommend_for_analysis or of
\* recommend_for_health_change invokes it exactly once, before returning, when an action
\* of the plan has requires_approval=true, and not at all when none has; the plan comes
\* back with approved=false either way, and the callback is invoked at no other moment.
C27_ApprovalCallback ==
    [][IF PlanReturned
       THEN /\ ~tasks'[1].plan.approved
            /\ IF approval_callback = NoneVal
               THEN approval_callback' = NoneVal
               ELSE IF \E i \in 1..Len(tasks'[1].plan.actions) :
                            tasks'[1].plan.actions[i].requires_approval
               THEN /\ Len(approval_callback') = Len(approval_callback) + 1
                    /\ SubSeq(approval_callback', 1, Len(approval_callback))
                            = approval_callback
                    /\ approval_callback'[Len(approval_callback')].task = 1
               ELSE approval_callback' = approval_callback
       ELSE approval_callback' = approval_callback]_vars

\* C27 witness: the callback has been invoked for two plans, the second the plan just
\* returned by recommend_for_health_change for an unhealthy service, whose restart needs
\* approval; the plan is not approved.
C27_Witness ==
    /\ tasks[1].pc = "planned"
    /\ tasks[1].health_change.state = UNHEALTHY
    /\ PlanKinds(1) = <<RESTART_SERVICE, NOTIFY>>
    /\ tasks[1].plan.actions[1].requires_approval
    /\ ~tasks[1].plan.approved
    /\ approval_callback # NoneVal
    /\ Len(approval_callback) = 2

(***************************************************************************)
(* Properties of execute_single_action                                     *)
(***************************************************************************)
\* The statuses the dispatch of execute_plan can give an action: the one fixed by the
\* action when no call of the Cloud API is made, else one for an answer of the API.
DispatchStatuses(action, dry_run) ==
    IF execute_action_call(action, dry_run).op = "none"
    THEN {execute_action_status(action, dry_run)}
    ELSE {api_status(outcome) : outcome \in ApiOutcomes}

\* C28 as claimed: a call of execute_single_action(kind, service, parameters, dry_run)
\* returns an ExecutionResult, with a status the dispatch of execute_plan gives an action
\* of the same kind, service and parameters.
C28_Original ==
    \A t \in Tasks :
        (tasks[t].caller = "single" /\ tasks[t].pc # "idle") =>
            /\ tasks[t].pc # "raised"
            /\ tasks[t].pc = "done" =>
                    /\ Len(tasks[t].result.action_results) = 1
                    /\ tasks[t].result.action_results[1].status \in
                            DispatchStatuses(
                                ActionRecommendation(tasks[t].request.action_type,
                                    tasks[t].service, NoneVal, 100, FALSE,
                                    tasks[t].request.parameters),
                                tasks[t].dry_run)


(***************************************************************************)
(* Properties of approved plans                                            *)
(***************************************************************************)
\* The pre hook of MonitorApp is about to answer for an action of an approved plan for
\* which the guard returns REQUIRES_APPROVAL.
ApprovedAwaitingHook(t) ==
    /\ tasks[t].pc = "pre_hook"
    /\ running = t
    /\ tasks[t].plan.approved
    /\ check_action_result(CurrentAction(t).action_type, CurrentAction(t).target_service,
                           CurrentAction(t).risk_level) = REQUIRES_APPROVAL

\* C31 as stated: once approve_plan has set plan.approved, execute_plan under the hooks
\* of MonitorApp attempts every action of the plan for which the guard returns
\* REQUIRES_APPROVAL: the pre hook lets it through to _execute_action.
C31_Original ==
    [][\A t \in Tasks :
            (ApprovedAwaitingHook(t) /\ PreHookGuard(t)) =>
                tasks'[t].pc = "execute_action"]_vars


(***************************************************************************)
(* Properties of the executor of MonitorApp over several plans             *)
(***************************************************************************)
\* The result the post hook of MonitorApp is about to be called with.
LastResult(t) == tasks[t].result.action_results[Len(tasks[t].result.action_results)]

\* C32 as stated: under the hooks of MonitorApp a result that is not FAILED never
\* increments the failure counter of its service: a SKIPPED result (NO_ACTION, SCALE_UP)
\* leaves the counter as it was.
C32_Original ==
    [][\A t \in Tasks :
            (/\ tasks[t].pc = "post_hook"
             /\ running = t
             /\ LastResult(t).status = SKIPPED
             /\ PostHookGuard(t)) =>
                DictGet(circuit_breakers', LastResult(t).target_service, 0)
                    = DictGet(circuit_breakers, LastResult(t).target_service, 0)]_vars


\* The records of (action_type, target_service) made less than an hour before record i,
\* record i included.
HourEndingAt(i, action_type, target_service) ==
    {j \in RecordsOf(target_service) :
        /\ action_history[j].action_type = action_type
        /\ j <= i
        /\ action_history[i].timestamp - action_history[j].timestamp < HourMinutes}

\* C34: with the plans of a service executed one at a time by the executor of MonitorApp,
\* every attempt preceded by the guard's pre-execution check, the guard's history never
\* holds more than max_restarts_per_hour records of a rate-limited kind K on S whose
\* timestamps are less than one hour apart.
C34_RateLimitHolds ==
    \A k \in RateLimitedKinds, s \in Services :
        \A i \in RecordsOf(s) :
            action_history[i].action_type = k =>
                Cardinality(HourEndingAt(i, k, s)) <= settings.max_restarts_per_hour

\* C34 witness: max_restarts_per_hour restarts of web-1 were recorded within the hour,
\* the cooldown of the last one has passed, and the pre hook is about to answer for one
\* more restart, which the guard blocks for the rate limit.
C34_Witness ==
    /\ tasks[1].pc = "pre_hook"
    /\ CurrentAction(1).action_type = RESTART_SERVICE
    /\ Cardinality(RecordsWithin(RESTART_SERVICE, "web-1", HourMinutes))
            = settings.max_restarts_per_hour
    /\ check_action_result(RESTART_SERVICE, "web-1", MEDIUM) = BLOCKED_RATE_LIMIT


(***************************************************************************)
(* Properties of the pipeline: what is dispatched and what is recorded     *)
(***************************************************************************)
\* C35: in the analysis pipeline a call to the Cloud Provider API is made for an action of
\* kind RESTART_SERVICE, RESTART_INSTANCE or REDEPLOY only if that action's own
\* is_safe_to_execute holds, whatever the other actions of its plan.
C35_OnlySafeActionsReachApi ==
    \A c \in 1..Len(api_calls) :
        (/\ tasks[api_calls[c].task].caller = "pipeline"
         /\ api_calls[c].action_type \in RateLimitedKinds)
            => is_safe_to_execute(ActionOf(c))

\* C35 witness: the pipeline executed a plan for one of its safe actions, and
\* _execute_action has run on an action of the plan of a rate-limited kind that is not
\* safe to execute, which the guard allowed.
C35_Witness ==
    \E t \in Tasks :
        /\ tasks[t].caller = "pipeline"
        /\ tasks[t].pc = "post_hook"
        /\ CurrentAction(t).action_type \in RateLimitedKinds
        /\ ~is_safe_to_execute(CurrentAction(t))
        /\ tasks[t].inner \in {tasks[t].dispatched[i] : i \in 1..Len(tasks[t].dispatched)}
        /\ \E i \in 1..Len(tasks[t].plan.actions) :
                is_safe_to_execute(tasks[t].plan.actions[i])


\* C36 as stated: after any runs of the pipeline the recommender's ActionHistory holds an
\* entry for (service, kind) only if the executor attempted an action of that kind on
\* that service, which under the hooks of MonitorApp leaves a record in the guard's
\* history; an action skipped by the pre hook adds no entry.
C36_Original ==
    \A i \in 1..Len(rec_history) :
        \E j \in 1..Len(action_history) :
            /\ action_history[j].action_type = rec_history[i].action_type
            /\ action_history[j].target_service = rec_history[i].target_service


(***************************************************************************)
(* Properties of a pre hook that raises                                    *)
(***************************************************************************)
\* C37: when the pre hook raises for the action at position p, execute_plan neither skips
\* nor fails the action on that account: the action is handed to _execute_action as after
\* an answer of true, its entry in action_results is the one _execute_action gives (with no
\* call to the API, the status of the kind), and its post hook is called once.
C37_RaisingPreHookLetsThrough ==
    \A t \in Tasks :
        \A p \in PreHookAnswered(t, "raise") :
            /\ tasks[t].pc # "raised"
            /\ \/ tasks[t].inner = p /\ tasks[t].pc = "execute_action"
               \/ \E j \in 1..Len(tasks[t].dispatched) : tasks[t].dispatched[j] = p
            /\ (Len(tasks[t].result.action_results) >= p /\ ApiCallsAt(t, p) = {}) =>
                    tasks[t].result.action_results[p].status =
                        execute_action_status(tasks[t].plan.actions[p], tasks[t].dry_run)
            /\ (tasks[t].inner > p \/ LoopOver(t)) => PostHookCount(t, p) = 1

\* C37 witness: the pre hook raised for a NOTIFY action, which then succeeded, and for an
\* action that called the Cloud Provider API; the post hook was called for both.
C37_Witness ==
    \E p, q \in PreHookAnswered(1, "raise") :
        /\ LoopOver(1)
        /\ tasks[1].plan.actions[p].action_type = NOTIFY
        /\ tasks[1].result.action_results[p].status = SUCCESS
        /\ ApiCallsAt(1, q) # {}
        /\ PostHookCount(1, p) = 1
        /\ PostHookCount(1, q) = 1


(***************************************************************************)
(* Properties of the circuit breaker under the hooks of MonitorApp         *)
(***************************************************************************)
\* Every failed record of target_service comes right after a successful NOTIFY of the
\* same service.
FailuresFollowNotify(target_service) ==
    \A i \in RecordsOf(target_service) :
        ~action_history[i].success =>
            \E j \in RecordsOf(target_service) :
                /\ j < i
                /\ \A m \in RecordsOf(target_service) : ~(j < m /\ m < i)
                /\ action_history[j].action_type = NOTIFY
                /\ action_history[j].success

\* C38: the circuit update of record_action does not look at the kind: under the hooks of
\* MonitorApp a recorded success of any kind on S, NOTIFY included, leaves the failure
\* counter of S at 0; so while every failed action on S comes right after a successful
\* NOTIFY on S the counter never exceeds 1 and the circuit of S stays closed.
C38_AnySuccessResets ==
    /\ [][\A t \in Tasks :
            (/\ action_history' # action_history
             /\ tasks[t].pc = "post_hook"
             /\ running = t
             /\ LastResult(t).status = SUCCESS
             /\ PostHookGuard(t)) =>
                DictGet(circuit_breakers', LastResult(t).target_service, 0) = 0]_vars
    /\ [](\A s \in Services :
            FailuresFollowNotify(s) =>
                /\ DictGet(circuit_breakers, s, 0) <= 1
                /\ ~is_circuit_open(s))

\* C38 witness: two restarts of web-1 failed, each right after a successful NOTIFY; the
\* counter stands at 1.
C38_Witness ==
    /\ FailuresFollowNotify("web-1")
    /\ Cardinality({i \in RecordsOf("web-1") :
            /\ action_history[i].action_type = RESTART_SERVICE
            /\ ~action_history[i].success}) >= 2
    /\ DictGet(circuit_breakers, "web-1", 0) = 1


(***************************************************************************)
(* Properties of the wait for recovery                                     *)
(***************************************************************************)
\* The get_instance_status calls made for the position task t is at.
StatusCalls(t) ==
    {c \in ApiCallsAt(t, tasks[t].inner) : api_calls[c].op = "get_instance_status"}

\* C39: the polling loop of _wait_for_instance_recovery always ends. A poll that reports
\* healthy ends it at once; after any other answer, unhealthy or an exception, it sleeps at
\* least poll_sleep_s seconds and polls again only while no more than timeout_s seconds
\* have gone by; and the result of the reboot it returns with is SUCCESS.
C39_RecoveryWaitEnds ==
    /\ [][\A t \in Tasks :
            /\ tasks[t].pc = "recovery_wait" =>
                    /\ tasks'[t].pc \in {"recovery_sleep", "post_hook"}
                    /\ tasks'[t].pc = "recovery_sleep" =>
                            tasks'[t].elapsed >= tasks[t].elapsed
                    /\ tasks'[t].pc = "post_hook" =>
                            LastResult(t)'.status = SUCCESS
            /\ tasks[t].pc = "recovery_sleep" =>
                    /\ tasks'[t].pc \in {"recovery_wait", "post_hook"}
                    /\ tasks'[t].elapsed >= tasks[t].elapsed + poll_sleep_s
                            \/ tasks'[t].elapsed > timeout_s
                    /\ tasks'[t].pc = "recovery_wait" <=> tasks'[t].elapsed <= timeout_s
                    /\ tasks'[t].pc = "post_hook" =>
                            LastResult(t)'.status = SUCCESS]_vars
    /\ \A t \in Tasks :
            tasks[t].pc \in {"recovery_wait", "recovery_sleep"} ~> tasks[t].pc = "post_hook"

\* C39 witness: the instance never reported healthy; after more than thirty polls the wait
\* has timed out and the reboot's result is SUCCESS.
C39_Witness ==
    /\ tasks[1].pc = "post_hook"
    /\ CurrentAction(1) = RebootAndWait
    /\ tasks[1].elapsed > timeout_s
    /\ Cardinality(StatusCalls(1)) > 30
    /\ LastResult(1).status = SUCCESS

====
